---- MODULE Spec2Model ----
(***************************************************************************)
(* Model of the command catalogue store of database.js (the version with   *)
(* duplicate detection and maintenance functions), of schema.sql, and of   *)
(* the HTTP handlers of api-server.js that wrap the store functions.       *)
(*                                                                         *)
(* Strings are sequences of one-character strings, so that concatenation   *)
(* and String.prototype.trim are computed and not assumed.  SQL NULL / JS  *)
(* undefined is the value NULL.  An embedding is represented by the text   *)
(* the provider derived it from (the provider is a deterministic black     *)
(* box: text -> vector).                                                   *)
(*                                                                         *)
(* The database is opened by better-sqlite3, whose build enforces foreign  *)
(* keys, so ON DELETE CASCADE of command_embeddings is in force.           *)
(*                                                                         *)
(* commands_fts is an FTS5 table with content='checkpoint_commands'        *)
(* (external content).  FTS5 removes postings of a row by reading the      *)
(* row's column values back from the content table.  The triggers of       *)
(* schema.sql run AFTER the content table has changed and issue a plain    *)
(* DELETE/UPDATE on commands_fts, so the values read back are the new ones *)
(* (UPDATE) or none (DELETE): the postings of the old values stay.  The    *)
(* index is therefore modelled as, per rowid, the set of tokens indexed    *)
(* for that rowid so far (checked against SQLite 3.40 with schema.sql).    *)
(***************************************************************************)
EXTENDS Integers, Sequences, FiniteSets, TLC

VARIABLES checkpoint_commands, command_embeddings, commands_fts,
          sqlite_sequence, last, pre, ncalls, requests

vars == <<checkpoint_commands, command_embeddings, commands_fts,
          sqlite_sequence, last, pre, ncalls, requests>>

store == [commands |-> checkpoint_commands,
          embeddings |-> command_embeddings,
          fts |-> commands_fts,
          seq |-> sqlite_sequence]

\* ---------------------------------------------------------------- bounds
MaxCalls == 3

\* ---------------------------------------------------------------- values
NULL == <<"NULL">>
NoId == 0

Truthy(v) == v # NULL /\ v # <<>>

OrEmpty(v) == IF Truthy(v) THEN v ELSE <<>>

RECURSIVE trimStart(_)
trimStart(s) ==
  IF s = <<>> THEN <<>>
  ELSE IF Head(s) = " " THEN trimStart(Tail(s)) ELSE s

RECURSIVE trimEnd(_)
trimEnd(s) ==
  IF s = <<>> THEN <<>>
  ELSE IF s[Len(s)] = " " THEN trimEnd(SubSeq(s, 1, Len(s) - 1)) ELSE s

trim(s) == trimEnd(trimStart(s))

\* variant: the description is left out of the embedded text
textToEmbed_NameOnly(command, description) == trim(command)

\* `${command} ${description || ''}`.trim()
textToEmbed(command, description) ==
  trim(command \o <<" ">> \o OrEmpty(description))

\* the vector the provider returns for a text
getEmbedding(text) == [of |-> text]

\* ---------------------------------------------------------------- text index
RECURSIVE Tokens(_)
Tokens(s) ==
  IF s = NULL \/ s = <<>> THEN {}
  ELSE LET sp == {i \in 1..Len(s) : s[i] = " "}
       IN IF sp = {} THEN {s}
          ELSE LET k == CHOOSE i \in sp : \A j \in sp : i <= j
               IN (IF k = 1 THEN {} ELSE {SubSeq(s, 1, k - 1)})
                  \cup Tokens(SubSeq(s, k + 1, Len(s)))

RowTokens(row) ==
  Tokens(row.command) \cup Tokens(row.description)
    \cup Tokens(row.keywords) \cup Tokens(row.category)

\* AFTER INSERT: the tokens of the new row are indexed under new.id
commands_ai(fts, id, row) ==
  [r \in DOMAIN fts \cup {id} |->
     IF r = id THEN (IF r \in DOMAIN fts THEN fts[r] ELSE {}) \cup RowTokens(row)
     ELSE fts[r]]

\* AFTER UPDATE: the tokens of the new values are indexed under new.id; the
\* postings of the old values are not found any more and stay
commands_au(fts, id, row) == commands_ai(fts, id, row)

\* AFTER DELETE: the content row is gone, no posting of old.id is removed
commands_ad(fts, id) == fts

\* SELECT rowid FROM commands_fts WHERE commands_fts MATCH token
ftsMatch(fts, token) == {r \in DOMAIN fts : token \in fts[r]}

\* ---------------------------------------------------------------- helpers
Without(f, id) == [r \in DOMAIN f \ {id} |-> f[r]]

With(f, id, v) == [r \in DOMAIN f \cup {id} |-> IF r = id THEN v ELSE f[r]]

Returned(v) == [outcome |-> "return", value |-> v]

\* one call of getEmbedding: the text sent and whether the provider answered
Asked(text, ok) == [text |-> text, ok |-> ok]

Thrown(text, ids) == [outcome |-> "throw", value |-> [text |-> text, ids |-> ids]]

\* ---------------------------------------------------------------- inputs
Names == {<<>>, <<"a">>, <<"b">>}
Descriptions == {NULL, <<>>, <<"x">>}
Categories == {<<>>, <<"c">>}

CommandData == [command : Names, description : Descriptions, category : Categories]

Updates ==
  { [command |-> <<"b">>],
    [command |-> <<>>],
    [description |-> <<>>],
    [description |-> <<"y">>],
    [category |-> <<>>],
    [deprecated |-> 1],
    [keywords |-> <<"k">>, deprecated |-> 1],
    [command |-> <<"b">>, category |-> <<"d">>],
    [id |-> 2] }

TargetIds == 1..(sqlite_sequence + 1)

\* ---------------------------------------------------------------- state
Init ==
  /\ checkpoint_commands = <<>>
  /\ command_embeddings = <<>>
  /\ commands_fts = <<>>
  /\ sqlite_sequence = 0
  /\ last = [op |-> "none"]
  /\ pre = [commands |-> <<>>, embeddings |-> <<>>, fts |-> <<>>, seq |-> 0]
  /\ ncalls = 0
  /\ requests = <<>>

Call == /\ ncalls < MaxCalls
        /\ ncalls' = ncalls + 1
        /\ pre' = store
        /\ requests' = requests

\* ---------------------------------------------------------------- addCommand
\* id INTEGER PRIMARY KEY AUTOINCREMENT: one more than the largest rowid the
\* table holds or has been given by an insert
MaxRowid(rows) ==
  IF DOMAIN rows = {} THEN 0
  ELSE CHOOSE i \in DOMAIN rows : \A j \in DOMAIN rows : j <= i

NextRowid ==
  (IF MaxRowid(checkpoint_commands) > sqlite_sequence
   THEN MaxRowid(checkpoint_commands) ELSE sqlite_sequence) + 1

Matching(command, category) ==
  {i \in DOMAIN checkpoint_commands :
     /\ checkpoint_commands[i].command = command
     /\ checkpoint_commands[i].category = category}

NewRow(d) ==
  [command |-> d.command, description |-> d.description,
   category |-> d.category, keywords |-> NULL, deprecated |-> 0]

addCommandInvalid(d) ==
  /\ Call
  /\ ~Truthy(d.command) \/ ~Truthy(d.category)
  /\ last' = [op |-> "addCommand", args |-> d, provider |-> <<>>,
              result |-> Returned([error |-> TRUE,
                                   message |-> [text |-> "required fields", ids |-> {}],
                                   existing_command_id |-> NoId, id |-> NoId])]
  /\ UNCHANGED <<checkpoint_commands, command_embeddings, commands_fts, sqlite_sequence>>

\* variant: a duplicate overwrites the description of the existing row
addCommandDuplicate_Overwrite(d) ==
  /\ Call
  /\ Truthy(d.command) /\ Truthy(d.category)
  /\ \E e \in Matching(d.command, d.category) :
       /\ checkpoint_commands' =
            With(checkpoint_commands, e,
                 [checkpoint_commands[e] EXCEPT !.description = d.description])
       /\ last' = [op |-> "addCommand", args |-> d, provider |-> <<>>,
                   result |-> Returned([error |-> TRUE,
                                        message |-> [text |-> "already exists", ids |-> {e}],
                                        existing_command_id |-> e, id |-> NoId])]
  /\ UNCHANGED <<command_embeddings, commands_fts, sqlite_sequence>>

addCommandDuplicate(d) ==
  /\ Call
  /\ Truthy(d.command) /\ Truthy(d.category)
  /\ \E e \in Matching(d.command, d.category) :
       last' = [op |-> "addCommand", args |-> d, provider |-> <<>>,
                result |-> Returned([error |-> TRUE,
                                     message |-> [text |-> "already exists", ids |-> {e}],
                                     existing_command_id |-> e, id |-> NoId])]
  /\ UNCHANGED <<checkpoint_commands, command_embeddings, commands_fts, sqlite_sequence>>

\* variant: the insert is undone when the provider fails
addCommandInsert_Rollback(d, ok) ==
  /\ Call
  /\ Truthy(d.command) /\ Truthy(d.category)
  /\ Matching(d.command, d.category) = {}
  /\ LET commandId == NextRowid
         text == textToEmbed(d.command, d.description)
     IN IF ok
        THEN /\ sqlite_sequence' = commandId
             /\ checkpoint_commands' = With(checkpoint_commands, commandId, NewRow(d))
             /\ commands_fts' = commands_ai(commands_fts, commandId, NewRow(d))
             /\ command_embeddings' = With(command_embeddings, commandId, getEmbedding(text))
             /\ last' = [op |-> "addCommand", args |-> d, provider |-> <<Asked(text, TRUE)>>,
                         result |-> Returned([error |-> FALSE,
                                              message |-> [text |-> "", ids |-> {}],
                                              existing_command_id |-> NoId,
                                              id |-> commandId])]
        ELSE /\ UNCHANGED <<checkpoint_commands, command_embeddings, commands_fts,
                            sqlite_sequence>>
             /\ last' = [op |-> "addCommand", args |-> d, provider |-> <<Asked(text, FALSE)>>,
                         result |-> Thrown("Ollama API error", {})]

\* variant: the embedding is stored only when the record has a description
addCommandInsert_WithDescriptionOnly(d, ok) ==
  /\ Call
  /\ Truthy(d.command) /\ Truthy(d.category)
  /\ Matching(d.command, d.category) = {}
  /\ LET commandId == NextRowid
         text == textToEmbed(d.command, d.description)
     IN /\ sqlite_sequence' = commandId
        /\ checkpoint_commands' = With(checkpoint_commands, commandId, NewRow(d))
        /\ commands_fts' = commands_ai(commands_fts, commandId, NewRow(d))
        /\ IF ok
           THEN /\ command_embeddings' =
                     IF Truthy(d.description)
                     THEN With(command_embeddings, commandId, getEmbedding(text))
                     ELSE command_embeddings
                /\ last' = [op |-> "addCommand", args |-> d, provider |-> <<Asked(text, TRUE)>>,
                            result |-> Returned([error |-> FALSE,
                                                 message |-> [text |-> "", ids |-> {}],
                                                 existing_command_id |-> NoId,
                                                 id |-> commandId])]
           ELSE /\ command_embeddings' = command_embeddings
                /\ last' = [op |-> "addCommand", args |-> d, provider |-> <<Asked(text, FALSE)>>,
                            result |-> Thrown("Ollama API error", {})]

addCommandInsert(d, ok) ==
  /\ Call
  /\ Truthy(d.command) /\ Truthy(d.category)
  /\ Matching(d.command, d.category) = {}
  /\ LET commandId == NextRowid
         text == textToEmbed(d.command, d.description)
     IN /\ sqlite_sequence' = commandId
        /\ checkpoint_commands' = With(checkpoint_commands, commandId, NewRow(d))
        /\ commands_fts' = commands_ai(commands_fts, commandId, NewRow(d))
        /\ IF ok
           THEN /\ command_embeddings' = With(command_embeddings, commandId, getEmbedding(text))
                /\ last' = [op |-> "addCommand", args |-> d, provider |-> <<Asked(text, TRUE)>>,
                            result |-> Returned([error |-> FALSE,
                                                 message |-> [text |-> "", ids |-> {}],
                                                 existing_command_id |-> NoId,
                                                 id |-> commandId])]
           ELSE /\ command_embeddings' = command_embeddings
                /\ last' = [op |-> "addCommand", args |-> d, provider |-> <<Asked(text, FALSE)>>,
                            result |-> Thrown("Ollama API error", {})]

addCommand ==
  \E d \in CommandData :
    \/ addCommandInvalid(d)
    \/ addCommandDuplicate(d)
    \/ \E ok \in BOOLEAN : addCommandInsert(d, ok)

\* ---------------------------------------------------------------- updateCommand
Has(u, k) == k \in DOMAIN u

ApplyUpdates(row, u) == [k \in DOMAIN row |-> IF Has(u, k) THEN u[k] ELSE row[k]]

\* variant: every update regenerates the embedding
RegenerateRequested_Always(u) == TRUE

\* updates.command || updates.description
RegenerateRequested(u) ==
  \/ Has(u, "command") /\ Truthy(u.command)
  \/ Has(u, "description") /\ Truthy(u.description)

\* the row key after the UPDATE (an id key in updates moves the row)
NewKey(id, u) == IF Has(u, "id") THEN u.id ELSE id

\* constraint that makes the UPDATE statement fail: the primary key of
\* checkpoint_commands, or the foreign key of command_embeddings (its
\* ON UPDATE action is the default, NO ACTION)
UpdateError(id, u) ==
  IF id \notin DOMAIN checkpoint_commands \/ NewKey(id, u) = id THEN "none"
  ELSE IF NewKey(id, u) \in DOMAIN checkpoint_commands THEN "UNIQUE constraint failed"
  ELSE IF id \in DOMAIN command_embeddings THEN "FOREIGN KEY constraint failed"
  ELSE "none"

\* UPDATE checkpoint_commands SET ... WHERE id = ?  (with trigger commands_au)
RunUpdate(id, u) ==
  IF id \in DOMAIN checkpoint_commands
  THEN /\ checkpoint_commands' =
            With(Without(checkpoint_commands, id), NewKey(id, u),
                 ApplyUpdates(checkpoint_commands[id], u))
       /\ commands_fts' =
            commands_au(commands_fts, NewKey(id, u),
                        ApplyUpdates(checkpoint_commands[id], u))
  ELSE UNCHANGED <<checkpoint_commands, commands_fts>>

\* row that SELECT ... WHERE id = ? finds after the UPDATE
RowAfterUpdate(id, u) == id \in DOMAIN checkpoint_commands /\ NewKey(id, u) = id

\* stmt.run throws, the statement has changed nothing
updateCommandConstraint(id, u) ==
  /\ Call
  /\ UpdateError(id, u) # "none"
  /\ last' = [op |-> "updateCommand", id |-> id, args |-> u, provider |-> <<>>,
              result |-> Thrown(UpdateError(id, u), {})]
  /\ UNCHANGED <<checkpoint_commands, command_embeddings, commands_fts, sqlite_sequence>>

updateCommandPlain(id, u) ==
  /\ Call
  /\ UpdateError(id, u) = "none"
  /\ ~RegenerateRequested(u)
  /\ RunUpdate(id, u)
  /\ last' = [op |-> "updateCommand", id |-> id, args |-> u, provider |-> <<>>,
              result |-> Returned(id \in DOMAIN checkpoint_commands)]
  /\ UNCHANGED <<command_embeddings, sqlite_sequence>>

\* cmdStmt.get(id) is undefined, cmd.command throws a TypeError
updateCommandNoRow(id, u) ==
  /\ Call
  /\ UpdateError(id, u) = "none"
  /\ RegenerateRequested(u)
  /\ ~RowAfterUpdate(id, u)
  /\ RunUpdate(id, u)
  /\ last' = [op |-> "updateCommand", id |-> id, args |-> u, provider |-> <<>>,
              result |-> Thrown("TypeError", {})]
  /\ UNCHANGED <<command_embeddings, sqlite_sequence>>

updateCommandRegenerate(id, u, ok) ==
  /\ Call
  /\ UpdateError(id, u) = "none"
  /\ RegenerateRequested(u)
  /\ RowAfterUpdate(id, u)
  /\ RunUpdate(id, u)
  /\ LET cmd == ApplyUpdates(checkpoint_commands[id], u)
         text == textToEmbed(cmd.command, cmd.description)
     IN IF ok
        THEN /\ command_embeddings' =
                  IF id \in DOMAIN command_embeddings
                  THEN With(command_embeddings, id, getEmbedding(text))
                  ELSE command_embeddings
             /\ last' = [op |-> "updateCommand", id |-> id, args |-> u,
                         provider |-> <<Asked(text, TRUE)>>, result |-> Returned(TRUE)]
        ELSE /\ command_embeddings' = command_embeddings
             /\ last' = [op |-> "updateCommand", id |-> id, args |-> u,
                         provider |-> <<Asked(text, FALSE)>>,
                         result |-> Thrown("Ollama API error", {})]
  /\ UNCHANGED sqlite_sequence

updateCommand ==
  \E id \in TargetIds, u \in Updates :
    \/ updateCommandConstraint(id, u)
    \/ updateCommandPlain(id, u)
    \/ updateCommandNoRow(id, u)
    \/ \E ok \in BOOLEAN : updateCommandRegenerate(id, u, ok)

\* ---------------------------------------------------------------- deleteCommand
\* DELETE FROM checkpoint_commands WHERE id = ?; the foreign key of
\* command_embeddings cascades, trigger commands_ad runs
\* variant: reports success whether or not a row was deleted
deleteCommand_AlwaysTrue(id) ==
  /\ Call
  /\ IF id \in DOMAIN checkpoint_commands
     THEN /\ checkpoint_commands' = Without(checkpoint_commands, id)
          /\ command_embeddings' = Without(command_embeddings, id)
          /\ commands_fts' = commands_ad(commands_fts, id)
     ELSE UNCHANGED <<checkpoint_commands, command_embeddings, commands_fts>>
  /\ last' = [op |-> "deleteCommand", id |-> id, provider |-> <<>>,
              result |-> Returned(TRUE)]
  /\ UNCHANGED sqlite_sequence

\* variant: the embedding of the deleted row is kept (no cascade)
deleteCommand_NoCascade(id) ==
  /\ Call
  /\ IF id \in DOMAIN checkpoint_commands
     THEN /\ checkpoint_commands' = Without(checkpoint_commands, id)
          /\ commands_fts' = commands_ad(commands_fts, id)
     ELSE UNCHANGED <<checkpoint_commands, commands_fts>>
  /\ last' = [op |-> "deleteCommand", id |-> id, provider |-> <<>>,
              result |-> Returned(id \in DOMAIN checkpoint_commands)]
  /\ UNCHANGED <<command_embeddings, sqlite_sequence>>

deleteCommand(id) ==
  /\ Call
  /\ IF id \in DOMAIN checkpoint_commands
     THEN /\ checkpoint_commands' = Without(checkpoint_commands, id)
          /\ command_embeddings' = Without(command_embeddings, id)
          /\ commands_fts' = commands_ad(commands_fts, id)
     ELSE UNCHANGED <<checkpoint_commands, command_embeddings, commands_fts>>
  /\ last' = [op |-> "deleteCommand", id |-> id, provider |-> <<>>,
              result |-> Returned(id \in DOMAIN checkpoint_commands)]
  /\ UNCHANGED sqlite_sequence

\* ---------------------------------------------------------------- renameCategory
RenameArgs == {<<<<"c">>, <<"d">>>>, <<<<"d">>, <<"c">>>>}

RECURSIVE ftsAfterUpdates(_, _, _)
ftsAfterUpdates(fts, rows, ids) ==
  IF ids = {} THEN fts
  ELSE LET i == CHOOSE x \in ids : \A y \in ids : x <= y
       IN ftsAfterUpdates(commands_au(fts, i, rows[i]), rows, ids \ {i})

renameCategory ==
  \E a \in RenameArgs :
    LET oldName == a[1]
        newName == a[2]
        hit == {i \in DOMAIN checkpoint_commands :
                  checkpoint_commands[i].category = oldName}
        rows == [i \in DOMAIN checkpoint_commands |->
                   IF i \in hit
                   THEN [checkpoint_commands[i] EXCEPT !.category = newName]
                   ELSE checkpoint_commands[i]]
    IN /\ Call
       /\ checkpoint_commands' = rows
       /\ commands_fts' = ftsAfterUpdates(commands_fts, rows, hit)
       /\ last' = [op |-> "renameCategory", args |-> a, provider |-> <<>>,
                   result |-> Returned(Cardinality(hit))]
       /\ UNCHANGED <<command_embeddings, sqlite_sequence>>

\* ---------------------------------------------------------------- rebuildEmbeddingById
rebuildEmbeddingByIdNotFound(id) ==
  /\ Call
  /\ id \notin DOMAIN checkpoint_commands
  /\ last' = [op |-> "rebuildEmbeddingById", id |-> id, provider |-> <<>>,
              result |-> Thrown("Command with ID not found", {id})]
  /\ UNCHANGED <<checkpoint_commands, command_embeddings, commands_fts, sqlite_sequence>>

\* variant: the new vector is written with UPDATE, which stores nothing for a
\* record that has no embedding row
rebuildEmbeddingByIdFound_UpdateOnly(id, ok) ==
  /\ Call
  /\ id \in DOMAIN checkpoint_commands
  /\ LET cmd == checkpoint_commands[id]
         text == textToEmbed(cmd.command, cmd.description)
     IN IF ok
        THEN /\ command_embeddings' =
                  IF id \in DOMAIN command_embeddings
                  THEN With(command_embeddings, id, getEmbedding(text))
                  ELSE command_embeddings
             /\ last' = [op |-> "rebuildEmbeddingById", id |-> id,
                         provider |-> <<Asked(text, TRUE)>>, result |-> Returned(TRUE)]
        ELSE /\ command_embeddings' = command_embeddings
             /\ last' = [op |-> "rebuildEmbeddingById", id |-> id,
                         provider |-> <<Asked(text, FALSE)>>,
                         result |-> Thrown("Ollama API error", {})]
  /\ UNCHANGED <<checkpoint_commands, commands_fts, sqlite_sequence>>

rebuildEmbeddingByIdFound(id, ok) ==
  /\ Call
  /\ id \in DOMAIN checkpoint_commands
  /\ LET cmd == checkpoint_commands[id]
         text == textToEmbed(cmd.command, cmd.description)
     IN IF ok
        THEN /\ command_embeddings' =
                  With(Without(command_embeddings, id), id, getEmbedding(text))
             /\ last' = [op |-> "rebuildEmbeddingById", id |-> id,
                         provider |-> <<Asked(text, TRUE)>>, result |-> Returned(TRUE)]
        ELSE /\ command_embeddings' = command_embeddings
             /\ last' = [op |-> "rebuildEmbeddingById", id |-> id,
                         provider |-> <<Asked(text, FALSE)>>,
                         result |-> Thrown("Ollama API error", {})]
  /\ UNCHANGED <<checkpoint_commands, commands_fts, sqlite_sequence>>

rebuildEmbeddingById ==
  \E id \in TargetIds :
    \/ rebuildEmbeddingByIdNotFound(id)
    \/ \E ok \in BOOLEAN : rebuildEmbeddingByIdFound(id, ok)

\* ---------------------------------------------------------------- rebuildAllEmbeddings
\* the for loop over the rows read at the start; failing is the set of ids
\* for which the provider call throws; acc = [emb, success, failed, provider]
\* variant: the first failing record ends the loop
RECURSIVE rebuildLoop_AbortOnFailure(_, _, _, _)
rebuildLoop_AbortOnFailure(commands, ids, failing, acc) ==
  IF ids = {} THEN acc
  ELSE LET i == CHOOSE x \in ids : \A y \in ids : x <= y
           text == textToEmbed(commands[i].command, commands[i].description)
       IN IF i \in failing
          THEN [acc EXCEPT !.failed = @ + 1,
                           !.provider = Append(@, Asked(text, FALSE))]
          ELSE rebuildLoop_AbortOnFailure(commands, ids \ {i}, failing,
                 [acc EXCEPT !.emb = With(Without(@, i), i, getEmbedding(text)),
                             !.success = @ + 1,
                             !.provider = Append(@, Asked(text, TRUE))])

\* variant: the old embedding is deleted before the provider is asked
RECURSIVE rebuildLoop_DeleteFirst(_, _, _, _)
rebuildLoop_DeleteFirst(commands, ids, failing, acc) ==
  IF ids = {} THEN acc
  ELSE LET i == CHOOSE x \in ids : \A y \in ids : x <= y
           text == textToEmbed(commands[i].command, commands[i].description)
       IN IF i \in failing
          THEN rebuildLoop_DeleteFirst(commands, ids \ {i}, failing,
                 [acc EXCEPT !.emb = Without(@, i),
                             !.failed = @ + 1,
                             !.provider = Append(@, Asked(text, FALSE))])
          ELSE rebuildLoop_DeleteFirst(commands, ids \ {i}, failing,
                 [acc EXCEPT !.emb = With(Without(@, i), i, getEmbedding(text)),
                             !.success = @ + 1,
                             !.provider = Append(@, Asked(text, TRUE))])

RECURSIVE rebuildLoop(_, _, _, _)
rebuildLoop(commands, ids, failing, acc) ==
  IF ids = {} THEN acc
  ELSE LET i == CHOOSE x \in ids : \A y \in ids : x <= y
           text == textToEmbed(commands[i].command, commands[i].description)
       IN IF i \in failing
          THEN rebuildLoop(commands, ids \ {i}, failing,
                 [acc EXCEPT !.failed = @ + 1,
                             !.provider = Append(@, Asked(text, FALSE))])
          ELSE rebuildLoop(commands, ids \ {i}, failing,
                 [acc EXCEPT !.emb = With(Without(@, i), i, getEmbedding(text)),
                             !.success = @ + 1,
                             !.provider = Append(@, Asked(text, TRUE))])

rebuildAllEmbeddings ==
  \E failing \in SUBSET DOMAIN checkpoint_commands :
    LET commands == checkpoint_commands
        r == rebuildLoop(commands, DOMAIN commands, failing,
                         [emb |-> command_embeddings, success |-> 0,
                          failed |-> 0, provider |-> <<>>])
    IN /\ Call
       /\ command_embeddings' = r.emb
       /\ last' = [op |-> "rebuildAllEmbeddings", failing |-> failing,
                   provider |-> r.provider,
                   result |-> Returned([total |-> Cardinality(DOMAIN commands),
                                        success |-> r.success,
                                        failed |-> r.failed])]
       /\ UNCHANGED <<checkpoint_commands, commands_fts, sqlite_sequence>>

\* the records of one (command, category) group
groupMembers(commands, command, category) ==
  {i \in DOMAIN commands :
     commands[i].command = command /\ commands[i].category = category}

\* the groups in the order of the result: larger count first; the order among
\* groups of equal count (category, command) is left to CHOOSE
RECURSIVE groupsInOrder(_, _)
groupsInOrder(commands, keys) ==
  IF keys = {} THEN <<>>
  ELSE LET size(k) == Cardinality(groupMembers(commands, k.command, k.category))
           first == CHOOSE k \in keys : \A other \in keys : size(k) >= size(other)
       IN <<[command |-> first.command, category |-> first.category,
             count |-> size(first),
             ids |-> groupMembers(commands, first.command, first.category)]>>
          \o groupsInOrder(commands, keys \ {first})

\* variant: HAVING count > 0
findDuplicates_EveryGroup ==
  /\ last' = [op |-> "findDuplicates",
              result |-> Returned(groupsInOrder(checkpoint_commands,
                {[command |-> checkpoint_commands[i].command,
                  category |-> checkpoint_commands[i].category] :
                    i \in DOMAIN checkpoint_commands}))]
  /\ pre' = store
  /\ UNCHANGED <<checkpoint_commands, command_embeddings, commands_fts,
                 sqlite_sequence, ncalls, requests>>

\* GROUP BY command, category HAVING count > 1
findDuplicates ==
  /\ last' = [op |-> "findDuplicates",
              result |-> Returned(groupsInOrder(checkpoint_commands,
                {k \in {[command |-> checkpoint_commands[i].command,
                         category |-> checkpoint_commands[i].category] :
                           i \in DOMAIN checkpoint_commands} :
                   Cardinality(groupMembers(checkpoint_commands,
                                            k.command, k.category)) > 1}))]
  /\ pre' = store
  /\ UNCHANGED <<checkpoint_commands, command_embeddings, commands_fts,
                 sqlite_sequence, ncalls, requests>>

\* one entry of issues, pushed only when its query returns rows
issue(type, ids) ==
  IF ids = {} THEN <<>>
  ELSE <<[type |-> type, count |-> Cardinality(ids), ids |-> ids]>>

RECURSIVE sumCounts(_)
sumCounts(issues) ==
  IF issues = <<>> THEN 0 ELSE Head(issues).count + sumCounts(Tail(issues))

\* validateDatabase: embeddings whose command_id matches no record
orphanedEmbeddings == DOMAIN command_embeddings \ DOMAIN checkpoint_commands

\* validateDatabase: records with no embedding row
noEmbeddings == DOMAIN checkpoint_commands \ DOMAIN command_embeddings

noRequired ==
  {i \in DOMAIN checkpoint_commands :
     \/ checkpoint_commands[i].command \in {NULL, <<>>}
     \/ checkpoint_commands[i].category \in {NULL, <<>>}}

\* variant: the check of the required fields looks at the command only
validateDatabase_CommandOnly ==
  LET issues == issue("missing_embeddings", noEmbeddings)
                \o issue("orphaned_embeddings", orphanedEmbeddings)
                \o issue("missing_required_fields",
                         {i \in DOMAIN checkpoint_commands :
                            checkpoint_commands[i].command \in {NULL, <<>>}})
  IN /\ last' = [op |-> "validateDatabase",
                 result |-> Returned([valid |-> issues = <<>>, issues |-> issues,
                                      total_issues |-> sumCounts(issues)])]
     /\ pre' = store
     /\ UNCHANGED <<checkpoint_commands, command_embeddings, commands_fts,
                    sqlite_sequence, ncalls, requests>>

validateDatabase ==
  LET issues == issue("missing_embeddings", noEmbeddings)
                \o issue("orphaned_embeddings", orphanedEmbeddings)
                \o issue("missing_required_fields", noRequired)
  IN /\ last' = [op |-> "validateDatabase",
                 result |-> Returned([valid |-> issues = <<>>, issues |-> issues,
                                      total_issues |-> sumCounts(issues)])]
     /\ pre' = store
     /\ UNCHANGED <<checkpoint_commands, command_embeddings, commands_fts,
                    sqlite_sequence, ncalls, requests>>

Next ==
  \/ addCommand
  \/ updateCommand
  \/ \E id \in TargetIds : deleteCommand(id)
  \/ renameCategory
  \/ rebuildEmbeddingById
  \/ rebuildAllEmbeddings
  \/ findDuplicates
  \/ validateDatabase

Spec == Init /\ [][Next]_vars

\* the same calls with a provider that answers every request
ReliableNext ==
  \/ \E d \in CommandData : addCommandInvalid(d)
  \/ \E d \in CommandData : addCommandDuplicate(d)
  \/ \E d \in CommandData : addCommandInsert(d, TRUE)
  \/ \E id \in TargetIds, u \in Updates : updateCommandConstraint(id, u)
  \/ \E id \in TargetIds, u \in Updates : updateCommandPlain(id, u)
  \/ \E id \in TargetIds, u \in Updates : updateCommandNoRow(id, u)
  \/ \E id \in TargetIds, u \in Updates : updateCommandRegenerate(id, u, TRUE)
  \/ \E id \in TargetIds : deleteCommand(id)
  \/ renameCategory
  \/ \E id \in TargetIds : rebuildEmbeddingByIdNotFound(id)
  \/ \E id \in TargetIds : rebuildEmbeddingByIdFound(id, TRUE)
  \/ rebuildAllEmbeddings /\ last'.failing = {}
  \/ validateDatabase

ReliableSpec == Init /\ [][ReliableNext]_vars

\* ---------------------------------------------------------------------------
\* searchCommands

MaxRecords == 2

\* POST /api/commands/search: limit = 5, score_threshold = 0.3 when absent
DefaultLimit == 5
DefaultThreshold == [num |-> 3, den |-> 10]

\* LIMIT of the text-index query
FtsLimit == 100

toLowerCase(c) == IF c = "A" THEN "a" ELSE IF c = "B" THEN "b" ELSE c

\* characters that the regular expression of extractKeywords replaces by a space
Punctuation == {"?", "!", ".", ",", ";", ":", "(", ")", "[", "]", "{", "}"}

Whitespace == {" "}

\* members of STOPWORDS that the queries below can produce
STOPWORDS == {<<"a">>, <<"t", "h", "e">>, <<"o", "r">>, <<"a", "n", "d">>, <<"g", "e", "t">>}

normalize(text) ==
  [i \in 1..Len(text) |->
     IF toLowerCase(text[i]) \in Punctuation THEN " " ELSE toLowerCase(text[i])]

\* String.prototype.split(/\s+/): the pieces between maximal runs of whitespace,
\* an empty piece at an end where the text starts or ends with whitespace
RECURSIVE splitFrom(_, _, _, _, _)
splitFrom(s, i, cur, out, inRun) ==
  IF i > Len(s) THEN Append(out, cur)
  ELSE IF s[i] \in Whitespace
       THEN IF inRun THEN splitFrom(s, i + 1, cur, out, TRUE)
            ELSE splitFrom(s, i + 1, <<>>, Append(out, cur), TRUE)
       ELSE splitFrom(s, i + 1, Append(cur, s[i]), out, FALSE)

split(s) == splitFrom(s, 1, <<>>, <<>>, FALSE)

\* [...new Set(words)]: first occurrences, in order
RECURSIVE unique(_, _)
unique(words, out) ==
  IF words = <<>> THEN out
  ELSE unique(Tail(words),
              IF \E k \in DOMAIN out : out[k] = Head(words) THEN out
              ELSE Append(out, Head(words)))

\* variant: stopwords are kept
extractKeywords_KeepStopwords(text, minLength) ==
  IF ~Truthy(text) THEN <<>>
  ELSE unique(SelectSeq(split(normalize(text)),
                        LAMBDA word : Len(word) >= minLength),
              <<>>)

extractKeywords(text, minLength) ==
  IF ~Truthy(text) THEN <<>>
  ELSE unique(SelectSeq(split(normalize(text)),
                        LAMBDA word : Len(word) >= minLength /\ word \notin STOPWORDS),
              <<>>)

\* FTS5 accepts a keyword as a bareword only if it is made of letters, digits
\* and "_"; keywords.join(' OR ') with any other keyword is a syntax error
BarewordChars == {"a", "b", "e", "h", "t"}

ftsQueryFails(keywords) ==
  \E k \in DOMAIN keywords : \E i \in DOMAIN keywords[k] : keywords[k][i] \notin BarewordChars

\* the first n of a set of rowids, in rowid order
TakeFirst(ids, n) == {i \in ids : Cardinality({j \in ids : j < i}) < n}

\* SELECT rowid FROM commands_fts WHERE commands_fts MATCH 'k1 OR k2 ...' LIMIT 100
ftsResults(fts, keywords) ==
  TakeFirst(UNION {ftsMatch(fts, keywords[k]) : k \in DOMAIN keywords}, FtsLimit)

\* the vector the provider answers for a text: its numbers of "a" and of "b";
\* a vector stored while EMBEDDING_MODEL named another model has one more
\* component
RECURSIVE Count(_, _)
Count(s, c) ==
  IF s = <<>> THEN 0 ELSE (IF Head(s) = c THEN 1 ELSE 0) + Count(Tail(s), c)

otherModelEmbedding(text) == [of |-> text, model |-> "other"]

providerVector(e) ==
  IF "model" \in DOMAIN e
  THEN <<Count(e.of, "a"), Count(e.of, "b"), Count(e.of, " ")>>
  ELSE <<Count(e.of, "a"), Count(e.of, "b")>>

RECURSIVE dotProduct(_, _)
dotProduct(vecA, vecB) ==
  IF vecA = <<>> THEN 0
  ELSE Head(vecA) * Head(vecB) + dotProduct(Tail(vecA), Tail(vecB))

\* variant: the lengths are not compared; the loop runs over vecA
cosineSimilarity_NoLengthCheck(vecA, vecB) ==
  [dot |-> dotProduct(vecA, vecB),
   norm2 |-> dotProduct(vecA, vecA) * dotProduct(vecB, vecB)]

\* throws when the lengths differ; else
\* dotProduct / (sqrt(normA) * sqrt(normB)), kept exact as the pair of
\* dotProduct and normA * normB; the vectors have no negative component
cosineSimilarity(vecA, vecB) ==
  IF Len(vecA) # Len(vecB) THEN [thrown |-> "Vectors must have same length"]
  ELSE [dot |-> dotProduct(vecA, vecB),
        norm2 |-> dotProduct(vecA, vecA) * dotProduct(vecB, vecB)]

\* candidates.map(...) followed by the ranking: the first throw of
\* cosineSimilarity leaves the function, nothing is ranked
rankedOrThrown(results, ranked) ==
  IF \E k \in DOMAIN results : "thrown" \in DOMAIN results[k].score
  THEN Thrown("Vectors must have same length", {})
  ELSE Returned(ranked)

\* 0 / 0
IsNaN(x) == x.norm2 = 0

\* x < y, x > y and x = y on scores; every comparison with NaN is false
ScoreLess(x, y) ==
  ~IsNaN(x) /\ ~IsNaN(y) /\ x.dot * x.dot * y.norm2 < y.dot * y.dot * x.norm2

ScoreGreater(x, y) == ScoreLess(y, x)

ScoreEqual(x, y) ==
  ~IsNaN(x) /\ ~IsNaN(y) /\ x.dot * x.dot * y.norm2 = y.dot * y.dot * x.norm2

\* x >= t for a threshold t = num / den, 0 <= t
AtLeast(x, t) ==
  ~IsNaN(x) /\ x.dot * x.dot * t.den * t.den >= t.num * t.num * x.norm2

\* results.sort((a, b) => b.score - a.score): stable, descending by score
RECURSIVE sortByScore(_)
sortByScore(results) ==
  IF results = <<>> THEN <<>>
  ELSE LET r == results[Len(results)]
           sorted == sortByScore(SubSeq(results, 1, Len(results) - 1))
           before == {k \in DOMAIN sorted : ~ScoreLess(sorted[k].score, r.score)}
           n == Cardinality(before)
       IN SubSeq(sorted, 1, n) \o <<r>> \o SubSeq(sorted, n + 1, Len(sorted))

\* Array.prototype.slice(0, limit); a negative limit counts from the end
slice(xs, limit) ==
  LET end == IF limit >= 0 THEN (IF limit < Len(xs) THEN limit ELSE Len(xs))
             ELSE (IF Len(xs) + limit > 0 THEN Len(xs) + limit ELSE 0)
  IN SubSeq(xs, 1, end)

\* the orders in which a SELECT without ORDER BY may return the rows of ids
Orders(ids) ==
  {o \in [1..Cardinality(ids) -> ids] : \A i, j \in DOMAIN o : i # j => o[i] # o[j]}

Queries ==
  { <<"a", "a", "b", " ", "a", "b", "b">>,
    <<"A", "a", "b", "?">>,
    <<"b", "a", "b">>,
    <<"a", "a", "b", "-", "b">>,
    <<"a", "b", " ", "t", "h", "e">>,
    <<"t", "h", "e">> }

Limits == {-1, 1, 2, DefaultLimit}

Thresholds == {DefaultThreshold, [num |-> 9, den |-> 10]}

nonDeprecated(commands) == {i \in DOMAIN commands : commands[i].deprecated = 0}

\* variant: no fallback when the text index matches nothing
candidatesOf_NoFallback(query) ==
  LET keywords == extractKeywords(query, 3)
  IN IF keywords # <<>> /\ ~ftsQueryFails(keywords)
     THEN ftsResults(commands_fts, keywords) ELSE {}

\* steps 1 to 3: the rowids the text index matches for the keywords of the
\* query; every non-deprecated record when there is no keyword, when the index
\* query fails or when it matches nothing
candidatesOf(query) ==
  LET keywords == extractKeywords(query, 3)
      matched == IF keywords # <<>> /\ ~ftsQueryFails(keywords)
                 THEN ftsResults(commands_fts, keywords) ELSE {}
  IN IF matched = {} THEN nonDeprecated(checkpoint_commands) ELSE matched

\* variant: the error of the text-index query is not caught
searchCommands_IndexErrorThrown(query, limit, scoreThreshold, ok, rows) ==
  LET keywords == extractKeywords(query, 3)
      ftsFailed == keywords # <<>> /\ ftsQueryFails(keywords)
      candidateIds == candidatesOf(query)
  IN /\ last.op = "none"
     /\ rows \in Orders(candidateIds \cap DOMAIN command_embeddings)
     /\ last' = [op |-> "searchCommands", query |-> query, limit |-> limit,
                 scoreThreshold |-> scoreThreshold, keywords |-> keywords,
                 ftsFailed |-> ftsFailed, candidateIds |-> candidateIds,
                 provider |-> IF ftsFailed THEN <<>> ELSE <<Asked(query, ok)>>,
                 rows |-> rows,
                 result |-> IF ftsFailed THEN Thrown("fts5: syntax error", {})
                            ELSE IF ok THEN Returned(<<>>)
                            ELSE Thrown("Ollama API error", {})]
     /\ pre' = store
     /\ UNCHANGED <<checkpoint_commands, command_embeddings, commands_fts,
                    sqlite_sequence, ncalls, requests>>

\* variant: the provider is asked only when there are candidates
searchCommands_SkipProviderWhenEmpty(query, limit, scoreThreshold, ok, rows) ==
  LET keywords == extractKeywords(query, 3)
      ftsFailed == keywords # <<>> /\ ftsQueryFails(keywords)
      candidateIds == candidatesOf(query)
      results == [k \in DOMAIN rows |->
                    [id |-> rows[k],
                     command |-> checkpoint_commands[rows[k]].command,
                     category |-> checkpoint_commands[rows[k]].category,
                     score |-> cosineSimilarity(providerVector(getEmbedding(query)),
                                                providerVector(command_embeddings[rows[k]]))]]
      ranked == slice(sortByScore(SelectSeq(results,
                        LAMBDA r : AtLeast(r.score, scoreThreshold))), limit)
  IN /\ last.op = "none"
     /\ rows \in Orders(candidateIds \cap DOMAIN command_embeddings)
     /\ last' = [op |-> "searchCommands", query |-> query, limit |-> limit,
                 scoreThreshold |-> scoreThreshold, keywords |-> keywords,
                 ftsFailed |-> ftsFailed, candidateIds |-> candidateIds,
                 provider |-> <<Asked(query, ok)>>, rows |-> rows,
                 result |-> IF ok \/ candidateIds = {}
                            THEN rankedOrThrown(results, ranked)
                            ELSE Thrown("Ollama API error", {})]
     /\ pre' = store
     /\ UNCHANGED <<checkpoint_commands, command_embeddings, commands_fts,
                    sqlite_sequence, ncalls, requests>>

\* variant: the search drops the postings of rowids that have no record
searchCommands_PrunesIndex(query, limit, scoreThreshold, ok, rows) ==
  LET keywords == extractKeywords(query, 3)
      ftsFailed == keywords # <<>> /\ ftsQueryFails(keywords)
      candidateIds == candidatesOf(query)
  IN /\ last.op = "none"
     /\ rows \in Orders(candidateIds \cap DOMAIN command_embeddings)
     /\ last' = [op |-> "searchCommands", query |-> query, limit |-> limit,
                 scoreThreshold |-> scoreThreshold, keywords |-> keywords,
                 ftsFailed |-> ftsFailed, candidateIds |-> candidateIds,
                 provider |-> <<Asked(query, ok)>>, rows |-> rows,
                 result |-> IF ok THEN Returned(<<>>)
                            ELSE Thrown("Ollama API error", {})]
     /\ pre' = store
     /\ commands_fts' = [r \in DOMAIN checkpoint_commands |-> commands_fts[r]]
     /\ UNCHANGED <<checkpoint_commands, command_embeddings, sqlite_sequence, ncalls, requests>>

searchCommands(query, limit, scoreThreshold, ok, rows) ==
  LET keywords == extractKeywords(query, 3)
      ftsFailed == keywords # <<>> /\ ftsQueryFails(keywords)
      candidateIds == candidatesOf(query)
      results == [k \in DOMAIN rows |->
                    [id |-> rows[k],
                     command |-> checkpoint_commands[rows[k]].command,
                     category |-> checkpoint_commands[rows[k]].category,
                     score |-> cosineSimilarity(providerVector(getEmbedding(query)),
                                                providerVector(command_embeddings[rows[k]]))]]
      ranked == slice(sortByScore(SelectSeq(results,
                        LAMBDA r : AtLeast(r.score, scoreThreshold))), limit)
  IN /\ last.op = "none"
     /\ rows \in Orders(candidateIds \cap DOMAIN command_embeddings)
     /\ last' = [op |-> "searchCommands", query |-> query, limit |-> limit,
                 scoreThreshold |-> scoreThreshold, keywords |-> keywords,
                 ftsFailed |-> ftsFailed, candidateIds |-> candidateIds,
                 provider |-> <<Asked(query, ok)>>, rows |-> rows,
                 result |-> IF ok THEN rankedOrThrown(results, ranked)
                            ELSE Thrown("Ollama API error", {})]
     /\ pre' = store
     /\ UNCHANGED <<checkpoint_commands, command_embeddings, commands_fts,
                    sqlite_sequence, ncalls, requests>>

\* advancedSearch: limit = 10 when absent
AdvancedDefaultLimit == 10

\* searchParams.category: absent, or the category to keep
CategoryFilters == {NULL, <<"c", "a", "t">>, <<"d">>}

AdvancedLimits == {1, AdvancedDefaultLimit}

\* searchParams without a filter
NoFilters ==
  [category |-> NULL, device |-> NULL, mode |-> NULL, version |-> NULL,
   impact |-> NULL]

\* the filters a result item r passes: each one applies when it is supplied;
\* version is looked up in the record of r.id
passesFilters(r, filters) ==
  /\ Truthy(filters.category) => r.category = filters.category
  /\ Truthy(filters.device) => checkpoint_commands[r.id].device = filters.device
  /\ Truthy(filters.mode) => checkpoint_commands[r.id].mode = filters.mode
  /\ Truthy(filters.version) => checkpoint_commands[r.id].version = filters.version
  /\ Truthy(filters.impact) => checkpoint_commands[r.id].impact = filters.impact

\* searchCommands with twice the limit, then the filters, then the cut to
\* limit
advancedSearch(query, filters, limit, scoreThreshold, ok, rows) ==
  LET keywords == extractKeywords(query, 3)
      ftsFailed == keywords # <<>> /\ ftsQueryFails(keywords)
      candidateIds == candidatesOf(query)
      results == [k \in DOMAIN rows |->
                    [id |-> rows[k],
                     command |-> checkpoint_commands[rows[k]].command,
                     category |-> checkpoint_commands[rows[k]].category,
                     score |-> cosineSimilarity(providerVector(getEmbedding(query)),
                                                providerVector(command_embeddings[rows[k]]))]]
      ranked == slice(sortByScore(SelectSeq(results,
                        LAMBDA r : AtLeast(r.score, scoreThreshold))), limit * 2)
      filtered == SelectSeq(ranked, LAMBDA r : passesFilters(r, filters))
  IN /\ last.op = "none"
     /\ rows \in Orders(candidateIds \cap DOMAIN command_embeddings)
     /\ last' = [op |-> "advancedSearch", query |-> query, limit |-> limit,
                 scoreThreshold |-> scoreThreshold, filters |-> filters,
                 keywords |-> keywords,
                 ftsFailed |-> ftsFailed, candidateIds |-> candidateIds,
                 provider |-> <<Asked(query, ok)>>, rows |-> rows,
                 result |-> IF ok THEN rankedOrThrown(results, slice(filtered, limit))
                            ELSE Thrown("Ollama API error", {})]
     /\ pre' = store
     /\ UNCHANGED <<checkpoint_commands, command_embeddings, commands_fts,
                    sqlite_sequence, ncalls, requests>>

\* what one identifier of a store can be: a deleted record whose postings
\* stay, or a record with or without an embedding, deprecated or not, whose
\* index entry may hold postings of an earlier name
aab == <<"a", "a", "b">>
abb == <<"a", "b", "b">>
cat == <<"c", "a", "t">>

Slots ==
  [present : {FALSE}, command : {aab}, deprecated : {0}, embedded : {FALSE},
   stale : {{}}, model : {"current"}]
  \cup [present : {TRUE}, command : {aab, abb}, deprecated : {0, 1},
        embedded : BOOLEAN, stale : {{}}, model : {"current"}]
  \cup [present : {TRUE}, command : {abb}, deprecated : {0}, embedded : {TRUE},
        stale : {{aab}}, model : {"current"}]
  \cup [present : {TRUE}, command : {aab}, deprecated : {0}, embedded : {TRUE},
        stale : {{}}, model : {"other"}]

slotRow(sl) ==
  [NewRow([command |-> sl.command, description |-> NULL, category |-> cat])
     EXCEPT !.deprecated = sl.deprecated]

SearchInit ==
  /\ sqlite_sequence \in 0..MaxRecords
  /\ \E slots \in [1..sqlite_sequence -> Slots] :
       /\ checkpoint_commands =
            [i \in {j \in 1..sqlite_sequence : slots[j].present} |-> slotRow(slots[i])]
       /\ command_embeddings =
            [i \in {j \in 1..sqlite_sequence : slots[j].present /\ slots[j].embedded}
               |-> IF slots[i].model = "other"
                   THEN otherModelEmbedding(textToEmbed(slots[i].command, NULL))
                   ELSE getEmbedding(textToEmbed(slots[i].command, NULL))]
       /\ commands_fts =
            [i \in 1..sqlite_sequence |-> RowTokens(slotRow(slots[i])) \cup slots[i].stale]
  /\ last = [op |-> "none"]
  /\ pre = store
  /\ ncalls = 0
  /\ requests = <<>>

SearchNext ==
  /\ last.op = "none"
  /\ \E query \in Queries :
       \E rows \in Orders(candidatesOf(query) \cap DOMAIN command_embeddings) :
         \/ \E limit \in Limits, scoreThreshold \in Thresholds, ok \in BOOLEAN :
              searchCommands(query, limit, scoreThreshold, ok, rows)
         \/ \E category \in CategoryFilters, limit \in AdvancedLimits, ok \in BOOLEAN :
              advancedSearch(query, [NoFilters EXCEPT !.category = category], limit,
                             DefaultThreshold, ok, rows)

SearchSpec == SearchInit /\ [][SearchNext]_vars

\* ---------------------------------------------------------------------------
\* advancedSearch over stores whose records differ in the filtered columns

MaxAdvRecords == 4

fw == <<"f", "w">>
mgmt == <<"m", "g", "m", "t">>
expert == <<"e", "x", "p", "e", "r", "t">>
clish == <<"c", "l", "i", "s", "h">>
R81 == <<"R", "8", "1">>
R80 == <<"R", "8", "0">>
high == <<"h", "i", "g", "h">>
low == <<"l", "o", "w">>

\* the records of these stores: all with an embedding, none deprecated
AdvRows ==
  { [command |-> aab, description |-> NULL, category |-> <<"d">>, keywords |-> NULL,
     deprecated |-> 0, device |-> mgmt, mode |-> clish, version |-> R80,
     impact |-> low],
    [command |-> abb, description |-> NULL, category |-> cat, keywords |-> NULL,
     deprecated |-> 0, device |-> fw, mode |-> expert, version |-> R81,
     impact |-> high] }

\* req.body of POST /api/commands/search/advanced: the filters supplied
AdvFilters ==
  { NoFilters,
    [NoFilters EXCEPT !.category = cat],
    [NoFilters EXCEPT !.device = fw],
    [NoFilters EXCEPT !.category = cat, !.device = mgmt],
    [NoFilters EXCEPT !.mode = clish],
    [NoFilters EXCEPT !.version = R81],
    [NoFilters EXCEPT !.impact = low] }

\* req.body.limit: no check is made on it
AdvLimits == {-1, 1, 2}

\* keywords aab and abb; the vector of the query is nearer to that of aab
AdvQuery == <<"a", "a", "b", " ", "a", "b", "b", " ", "a">>

AdvInit ==
  /\ sqlite_sequence \in 0..MaxAdvRecords
  /\ checkpoint_commands \in [1..sqlite_sequence -> AdvRows]
  /\ command_embeddings =
       [i \in 1..sqlite_sequence
          |-> getEmbedding(textToEmbed(checkpoint_commands[i].command, NULL))]
  /\ commands_fts = [i \in 1..sqlite_sequence |-> RowTokens(checkpoint_commands[i])]
  /\ last = [op |-> "none"]
  /\ pre = store
  /\ ncalls = 0
  /\ requests = <<>>

AdvNext ==
  /\ last.op = "none"
  /\ \E rows \in Orders(candidatesOf(AdvQuery) \cap DOMAIN command_embeddings) :
       \E filters \in AdvFilters, limit \in AdvLimits, ok \in BOOLEAN :
         advancedSearch(AdvQuery, filters, limit, DefaultThreshold, ok, rows)

AdvSpec == AdvInit /\ [][AdvNext]_vars

\* ---------------------------------------------------------------------------
\* pure functions: extractKeywords, embeddingToBlob / blobToEmbedding

MaxLen == 4
MaxDim == 3

Alphabet == {"a", "B", "b", " ", "?"}

\* null, and every text of up to MaxLen characters
Texts == {NULL} \cup UNION {[1..n -> Alphabet] : n \in 0..MaxLen}

MinLengths == {1, 2, 3}

\* a float64 as its IEEE 754 bit pattern, four 16-bit words, most significant
\* first: 0, -0, 1, 0.1, the largest finite number, the smallest subnormal
Doubles ==
  { <<0, 0, 0, 0>>, <<32768, 0, 0, 0>>, <<16368, 0, 0, 0>>,
    <<16313, 39321, 39321, 39322>>, <<32751, 65535, 65535, 65535>>,
    <<0, 0, 0, 1>> }

Embeddings == UNION {[1..n -> Doubles] : n \in 0..MaxDim}

\* Buffer.allocUnsafe(size): size bytes of whatever the memory held
allocUnsafe(size, junk) == [i \in 1..size |-> junk]

\* buffer.writeDoubleLE(value, offset): least significant byte first
writeDoubleLE(buffer, value, offset) ==
  [i \in DOMAIN buffer |->
     IF i > offset /\ i <= offset + 8
     THEN LET k == i - offset - 1
              word == value[4 - (k \div 2)]
          IN IF k % 2 = 0 THEN word % 256 ELSE word \div 256
     ELSE buffer[i]]

\* variant: the bytes are read most significant first
readDoubleLE_BigEndian(blob, offset) ==
  [w \in 1..4 |-> blob[offset + 2 * w - 1] * 256 + blob[offset + 2 * w]]

\* blob.readDoubleLE(offset)
readDoubleLE(blob, offset) ==
  [w \in 1..4 |->
     blob[offset + 2 * (4 - w) + 1] + 256 * blob[offset + 2 * (4 - w) + 2]]

RECURSIVE writeAll(_, _, _)
writeAll(buffer, embedding, index) ==
  IF index >= Len(embedding) THEN buffer
  ELSE writeAll(writeDoubleLE(buffer, embedding[index + 1], index * 8),
                embedding, index + 1)

embeddingToBlob(embedding, junk) ==
  writeAll(allocUnsafe(Len(embedding) * 8, junk), embedding, 0)

RECURSIVE readFrom(_, _, _)
readFrom(blob, i, embedding) ==
  IF i < Len(blob)
  THEN readFrom(blob, i + 8, Append(embedding, readDoubleLE(blob, i)))
  ELSE embedding

blobToEmbedding(blob) == readFrom(blob, 0, <<>>)

PureInit ==
  /\ checkpoint_commands = <<>>
  /\ command_embeddings = <<>>
  /\ commands_fts = <<>>
  /\ sqlite_sequence = 0
  /\ last = [op |-> "none"]
  /\ pre = store
  /\ ncalls = 0
  /\ requests = <<>>

keywordsCall(text, minLength) ==
  /\ last.op = "none"
  /\ last' = [op |-> "extractKeywords", text |-> text, minLength |-> minLength,
              result |-> Returned(extractKeywords(text, minLength))]
  /\ UNCHANGED <<checkpoint_commands, command_embeddings, commands_fts,
                 sqlite_sequence, pre, ncalls, requests>>

\* a vector is stored and read back
roundTrip(embedding, junk) ==
  /\ last.op = "none"
  /\ last' = [op |-> "embeddingToBlob", embedding |-> embedding,
              blob |-> embeddingToBlob(embedding, junk),
              result |-> Returned(blobToEmbedding(embeddingToBlob(embedding, junk)))]
  /\ UNCHANGED <<checkpoint_commands, command_embeddings, commands_fts,
                 sqlite_sequence, pre, ncalls, requests>>

PureNext ==
  /\ last.op = "none"
  /\ \/ \E text \in Texts, minLength \in MinLengths : keywordsCall(text, minLength)
     \/ \E embedding \in Embeddings, junk \in {0, 255} : roundTrip(embedding, junk)

PureSpec == PureInit /\ [][PureNext]_vars

\* ---------------------------------------------------------------------------
\* requests in flight: every handler is an async function that runs until it
\* awaits the provider and goes on when the answer arrives; nothing keeps a
\* second request from running in between

MaxRequests == 2

ConcData == {[command |-> abb, description |-> NULL, category |-> cat]}

ConcUpdates == {[command |-> abb], [description |-> <<"b">>]}

ConcQueries == {aab, abb}

\* the store after addCommand(db, {command: 'aab', category: 'cat'})
ConcInit ==
  /\ checkpoint_commands =
       <<NewRow([command |-> aab, description |-> NULL, category |-> cat])>>
  /\ command_embeddings = <<getEmbedding(textToEmbed(aab, NULL))>>
  /\ commands_fts = <<{aab, cat}>>
  /\ sqlite_sequence = 1
  /\ last = [op |-> "none"]
  /\ pre = store
  /\ ncalls = 0
  /\ requests = <<>>

Accept == /\ Len(requests) < MaxRequests
          /\ pre' = store
          /\ UNCHANGED ncalls

Resume(r, op) == /\ r \in DOMAIN requests
                 /\ requests[r].op = op
                 /\ requests[r].pc = "awaiting"
                 /\ pre' = store
                 /\ UNCHANGED ncalls

\* addCommand finding the pair: it returns at once
addCommandRefuse(d) ==
  /\ Accept
  /\ Truthy(d.command) /\ Truthy(d.category)
  /\ \E e \in Matching(d.command, d.category) :
       requests' = Append(requests,
                          [op |-> "addCommand", pc |-> "done", id |-> NoId,
                           text |-> <<>>, candidateIds |-> {}, args |-> d,
                           result |-> Returned([error |-> TRUE,
                                                existing_command_id |-> e])])
  /\ UNCHANGED <<checkpoint_commands, command_embeddings, commands_fts, sqlite_sequence>>
  /\ last' = [op |-> "addCommand", req |-> Len(requests) + 1, step |-> "finish"]

\* variant: the record is inserted without the lookup of the pair
addCommandStart_NoLookup(d) ==
  /\ Accept
  /\ Truthy(d.command) /\ Truthy(d.category)
  /\ sqlite_sequence' = NextRowid
  /\ checkpoint_commands' = With(checkpoint_commands, NextRowid, NewRow(d))
  /\ commands_fts' = commands_ai(commands_fts, NextRowid, NewRow(d))
  /\ UNCHANGED command_embeddings
  /\ requests' = Append(requests,
                        [op |-> "addCommand", pc |-> "awaiting", id |-> NextRowid,
                         text |-> textToEmbed(d.command, d.description),
                         candidateIds |-> {}, args |-> d, result |-> Returned(FALSE)])
  /\ last' = [op |-> "addCommand", req |-> Len(requests) + 1, step |-> "start"]

\* addCommand up to await getEmbedding: the pair is looked up and the record
\* is inserted
addCommandStart(d) ==
  /\ Accept
  /\ Truthy(d.command) /\ Truthy(d.category)
  /\ Matching(d.command, d.category) = {}
  /\ sqlite_sequence' = NextRowid
  /\ checkpoint_commands' = With(checkpoint_commands, NextRowid, NewRow(d))
  /\ commands_fts' = commands_ai(commands_fts, NextRowid, NewRow(d))
  /\ UNCHANGED command_embeddings
  /\ requests' = Append(requests,
                        [op |-> "addCommand", pc |-> "awaiting", id |-> NextRowid,
                         text |-> textToEmbed(d.command, d.description),
                         candidateIds |-> {}, args |-> d, result |-> Returned(FALSE)])
  /\ last' = [op |-> "addCommand", req |-> Len(requests) + 1, step |-> "start"]

\* variant: the foreign key of command_embeddings is not enforced
addCommandFinish_NoForeignKey(r, ok) ==
  /\ Resume(r, "addCommand")
  /\ LET id == requests[r].id
         stored == ok /\ id \notin DOMAIN command_embeddings
     IN /\ command_embeddings' =
             IF stored THEN With(command_embeddings, id, getEmbedding(requests[r].text))
             ELSE command_embeddings
        /\ requests' =
             [requests EXCEPT ![r].pc = "done",
                              ![r].result =
                                 IF stored THEN Returned(TRUE)
                                 ELSE IF ok THEN Thrown("constraint failed", {id})
                                 ELSE Thrown("Ollama API error", {})]
  /\ UNCHANGED <<checkpoint_commands, commands_fts, sqlite_sequence>>
  /\ last' = [op |-> "addCommand", req |-> r, step |-> "finish"]

\* addCommand after the await: the embedding is inserted; the foreign key
\* refuses it if the record is gone
addCommandFinish(r, ok) ==
  /\ Resume(r, "addCommand")
  /\ LET id == requests[r].id
         stored == ok /\ id \in DOMAIN checkpoint_commands
                      /\ id \notin DOMAIN command_embeddings
     IN /\ command_embeddings' =
             IF stored THEN With(command_embeddings, id, getEmbedding(requests[r].text))
             ELSE command_embeddings
        /\ requests' =
             [requests EXCEPT ![r].pc = "done",
                              ![r].result =
                                 IF stored THEN Returned(TRUE)
                                 ELSE IF ok THEN Thrown("constraint failed", {id})
                                 ELSE Thrown("Ollama API error", {})]
  /\ UNCHANGED <<checkpoint_commands, commands_fts, sqlite_sequence>>
  /\ last' = [op |-> "addCommand", req |-> r, step |-> "finish"]

\* updateCommand up to await getEmbedding: the record is updated and read back
updateCommandStart(id, u) ==
  /\ Accept
  /\ id \in DOMAIN checkpoint_commands
  /\ UpdateError(id, u) = "none"
  /\ RegenerateRequested(u)
  /\ RunUpdate(id, u)
  /\ UNCHANGED <<command_embeddings, sqlite_sequence>>
  /\ requests' = Append(requests,
                        [op |-> "updateCommand", pc |-> "awaiting", id |-> id,
                         text |-> textToEmbed(ApplyUpdates(checkpoint_commands[id], u).command,
                                              ApplyUpdates(checkpoint_commands[id], u).description),
                         candidateIds |-> {}, result |-> Returned(FALSE)])
  /\ last' = [op |-> "updateCommand", req |-> Len(requests) + 1, step |-> "start"]

\* updateCommand after the await: UPDATE command_embeddings ... WHERE command_id = id
updateCommandFinish(r, ok) ==
  /\ Resume(r, "updateCommand")
  /\ LET id == requests[r].id
     IN /\ command_embeddings' =
             IF ok /\ id \in DOMAIN command_embeddings
             THEN With(command_embeddings, id, getEmbedding(requests[r].text))
             ELSE command_embeddings
        /\ requests' =
             [requests EXCEPT ![r].pc = "done",
                              ![r].result = IF ok THEN Returned(TRUE)
                                            ELSE Thrown("Ollama API error", {})]
  /\ UNCHANGED <<checkpoint_commands, commands_fts, sqlite_sequence>>
  /\ last' = [op |-> "updateCommand", req |-> r, step |-> "finish"]

\* deleteCommand has no await
deleteCommandRequest(id) ==
  /\ Accept
  /\ id \in DOMAIN checkpoint_commands
  /\ checkpoint_commands' = Without(checkpoint_commands, id)
  /\ command_embeddings' = Without(command_embeddings, id)
  /\ commands_fts' = commands_ad(commands_fts, id)
  /\ UNCHANGED sqlite_sequence
  /\ requests' = Append(requests,
                        [op |-> "deleteCommand", pc |-> "done", id |-> id,
                         text |-> <<>>, candidateIds |-> {}, result |-> Returned(TRUE)])
  /\ last' = [op |-> "deleteCommand", req |-> Len(requests) + 1, step |-> "finish"]

\* searchCommands up to await getEmbedding(query): the candidates are chosen
searchCommandsStart(query) ==
  /\ Accept
  /\ UNCHANGED <<checkpoint_commands, command_embeddings, commands_fts, sqlite_sequence>>
  /\ requests' = Append(requests,
                        [op |-> "searchCommands", pc |-> "awaiting", id |-> NoId,
                         text |-> query, candidateIds |-> candidatesOf(query),
                         result |-> Returned(FALSE)])
  /\ last' = [op |-> "searchCommands", req |-> Len(requests) + 1, step |-> "start"]

\* searchCommands after the await: the candidates' rows and embeddings are
\* read and ranked; each item keeps the embedding its score was computed from
searchCommandsFinish(r, ok, rows) ==
  /\ Resume(r, "searchCommands")
  /\ rows \in Orders(requests[r].candidateIds \cap DOMAIN command_embeddings)
  /\ LET query == requests[r].text
         results == [k \in DOMAIN rows |->
                       [id |-> rows[k],
                        command |-> checkpoint_commands[rows[k]].command,
                        description |-> checkpoint_commands[rows[k]].description,
                        embedding |-> command_embeddings[rows[k]],
                        score |-> cosineSimilarity(providerVector(getEmbedding(query)),
                                                   providerVector(command_embeddings[rows[k]]))]]
         ranked == slice(sortByScore(SelectSeq(results,
                           LAMBDA x : AtLeast(x.score, DefaultThreshold))), DefaultLimit)
         result == IF ok THEN rankedOrThrown(results, ranked)
                   ELSE Thrown("Ollama API error", {})
     IN /\ requests' = [requests EXCEPT ![r].pc = "done", ![r].result = result]
        /\ last' = [op |-> "searchCommands", req |-> r, step |-> "finish",
                    result |-> result]
  /\ UNCHANGED <<checkpoint_commands, command_embeddings, commands_fts, sqlite_sequence>>

\* rebuildEmbeddingById up to await getEmbedding: the record is read
rebuildEmbeddingByIdStart(id) ==
  /\ Accept
  /\ UNCHANGED <<checkpoint_commands, command_embeddings, commands_fts, sqlite_sequence>>
  /\ requests' =
       Append(requests,
              IF id \in DOMAIN checkpoint_commands
              THEN [op |-> "rebuildEmbeddingById", pc |-> "awaiting", id |-> id,
                    text |-> textToEmbed(checkpoint_commands[id].command,
                                         checkpoint_commands[id].description),
                    candidateIds |-> {}, result |-> Returned(FALSE)]
              ELSE [op |-> "rebuildEmbeddingById", pc |-> "done", id |-> id,
                    text |-> <<>>, candidateIds |-> {},
                    result |-> Thrown("Command with ID not found", {id})])
  /\ last' = [op |-> "rebuildEmbeddingById", req |-> Len(requests) + 1,
              step |-> "start"]

\* rebuildEmbeddingById after the await: DELETE, then INSERT, which the foreign
\* key refuses if the record is gone
rebuildEmbeddingByIdFinish(r, ok) ==
  /\ Resume(r, "rebuildEmbeddingById")
  /\ LET id == requests[r].id
         stored == ok /\ id \in DOMAIN checkpoint_commands
     IN /\ command_embeddings' =
             IF stored THEN With(command_embeddings, id, getEmbedding(requests[r].text))
             ELSE IF ok THEN Without(command_embeddings, id)
             ELSE command_embeddings
        /\ requests' =
             [requests EXCEPT ![r].pc = "done",
                              ![r].result =
                                 IF stored THEN Returned(TRUE)
                                 ELSE IF ok THEN Thrown("constraint failed", {id})
                                 ELSE Thrown("Ollama API error", {})]
  /\ UNCHANGED <<checkpoint_commands, commands_fts, sqlite_sequence>>
  /\ last' = [op |-> "rebuildEmbeddingById", req |-> r, step |-> "finish"]

\* SELECT id, command, description FROM checkpoint_commands: the rows of ids
\* with the text to embed, by ascending id
RECURSIVE rowsRead(_, _)
rowsRead(commands, ids) ==
  IF ids = {} THEN <<>>
  ELSE LET i == CHOOSE x \in ids : \A y \in ids : x <= y
       IN <<[id |-> i,
             text |-> textToEmbed(commands[i].command, commands[i].description)]>>
          \o rowsRead(commands, ids \ {i})

\* rebuildAllEmbeddings up to the first await getEmbedding: the rows are read
rebuildAllEmbeddingsStart ==
  /\ Accept
  /\ UNCHANGED <<checkpoint_commands, command_embeddings, commands_fts, sqlite_sequence>>
  /\ LET commands == rowsRead(checkpoint_commands, DOMAIN checkpoint_commands)
     IN requests' =
          Append(requests,
                 IF commands = <<>>
                 THEN [op |-> "rebuildAllEmbeddings", pc |-> "done", id |-> NoId,
                       text |-> <<>>, candidateIds |-> {}, rest |-> <<>>,
                       result |-> Returned([total |-> 0, success |-> 0, failed |-> 0])]
                 ELSE [op |-> "rebuildAllEmbeddings", pc |-> "awaiting",
                       id |-> commands[1].id, text |-> commands[1].text,
                       candidateIds |-> {}, rest |-> Tail(commands),
                       result |-> Returned([total |-> Len(commands), success |-> 0,
                                            failed |-> 0])])
  /\ last' = [op |-> "rebuildAllEmbeddings", req |-> Len(requests) + 1,
              step |-> "start"]

\* rebuildAllEmbeddings from one await to the next: DELETE and INSERT for the
\* row in hand, inside try/catch; then the next row, or the summary
rebuildAllEmbeddingsStep(r, ok) ==
  /\ Resume(r, "rebuildAllEmbeddings")
  /\ LET id == requests[r].id
         stored == ok /\ id \in DOMAIN checkpoint_commands
         counts == requests[r].result.value
         result == Returned(IF stored THEN [counts EXCEPT !.success = @ + 1]
                            ELSE [counts EXCEPT !.failed = @ + 1])
         rest == requests[r].rest
     IN /\ command_embeddings' =
             IF stored THEN With(command_embeddings, id, getEmbedding(requests[r].text))
             ELSE IF ok THEN Without(command_embeddings, id)
             ELSE command_embeddings
        /\ requests' =
             IF rest = <<>>
             THEN [requests EXCEPT ![r].pc = "done", ![r].result = result]
             ELSE [requests EXCEPT ![r].id = rest[1].id, ![r].text = rest[1].text,
                                   ![r].rest = Tail(rest), ![r].result = result]
  /\ UNCHANGED <<checkpoint_commands, commands_fts, sqlite_sequence>>
  /\ last' = [op |-> "rebuildAllEmbeddings", req |-> r, step |-> "step"]

ConcNext ==
  \/ \E d \in ConcData : addCommandStart(d)
  \/ \E d \in ConcData : addCommandRefuse(d)
  \/ \E id \in 1..MaxRequests : rebuildEmbeddingByIdStart(id)
  \/ \E r \in 1..MaxRequests, ok \in BOOLEAN : rebuildEmbeddingByIdFinish(r, ok)
  \/ rebuildAllEmbeddingsStart
  \/ \E r \in 1..MaxRequests, ok \in BOOLEAN : rebuildAllEmbeddingsStep(r, ok)
  \/ \E r \in 1..MaxRequests, ok \in BOOLEAN : addCommandFinish(r, ok)
  \/ \E id \in 1..MaxRequests, u \in ConcUpdates : updateCommandStart(id, u)
  \/ \E r \in 1..MaxRequests, ok \in BOOLEAN : updateCommandFinish(r, ok)
  \/ \E id \in 1..MaxRequests : deleteCommandRequest(id)
  \/ \E query \in ConcQueries : searchCommandsStart(query)
  \/ \E r \in 1..MaxRequests, ok \in BOOLEAN :
       \E rows \in UNION {Orders(ids) : ids \in SUBSET DOMAIN command_embeddings} :
         searchCommandsFinish(r, ok, rows)

ConcSpec == ConcInit /\ [][ConcNext]_vars

\* ---------------------------------------------------------------------------
\* bulkAddCommands

MaxBatch == 3

\* addCommand on a store st: the stores and results it may end with (one,
\* unless several records hold the pair and the lookup may return any)
addCommandOn(st, d, ok) ==
  LET matching == {i \in DOMAIN st.commands :
                     /\ st.commands[i].command = d.command
                     /\ st.commands[i].category = d.category}
      commandId == (IF MaxRowid(st.commands) > st.seq
                    THEN MaxRowid(st.commands) ELSE st.seq) + 1
      text == textToEmbed(d.command, d.description)
      inserted == [st EXCEPT !.commands = With(st.commands, commandId, NewRow(d)),
                             !.fts = commands_ai(st.fts, commandId, NewRow(d)),
                             !.seq = commandId]
  IN IF ~Truthy(d.command) \/ ~Truthy(d.category)
     THEN {[store |-> st,
            result |-> Returned([error |-> TRUE,
                                 message |-> [text |-> "required fields", ids |-> {}],
                                 existing_command_id |-> NoId, id |-> NoId])]}
     ELSE IF matching # {}
     THEN {[store |-> st,
            result |-> Returned([error |-> TRUE,
                                 message |-> [text |-> "already exists", ids |-> {e}],
                                 existing_command_id |-> e, id |-> NoId])] : e \in matching}
     ELSE IF ok
     THEN {[store |-> [inserted EXCEPT !.embeddings =
                         With(st.embeddings, commandId, getEmbedding(text))],
            result |-> Returned([error |-> FALSE,
                                 message |-> [text |-> "", ids |-> {}],
                                 existing_command_id |-> NoId, id |-> commandId])]}
     ELSE {[store |-> inserted, result |-> Thrown("Ollama API error", {})]}

\* the list the outcome of one element goes to
pushResult(results, cmd, result) ==
  IF result.outcome = "throw"
  THEN [results EXCEPT !.errors =
          Append(@, [command |-> cmd.command, error |-> result.value])]
  ELSE IF result.value.error
  THEN [results EXCEPT !.skipped =
          Append(@, [command |-> cmd.command, category |-> cmd.category,
                     reason |-> result.value.message,
                     existing_id |-> result.value.existing_command_id])]
  ELSE [results EXCEPT !.added =
          Append(@, [id |-> result.value.id, command |-> cmd.command,
                     category |-> cmd.category])]

\* variant: the loop ends at the first element the provider fails for
RECURSIVE bulkLoop_AbortOnFailure(_, _, _, _, _)
bulkLoop_AbortOnFailure(st, commands, k, failing, results) ==
  IF k > Len(commands) THEN {[store |-> st, results |-> results]}
  ELSE UNION {IF o.result.outcome = "throw"
              THEN {[store |-> o.store,
                     results |-> pushResult(results, commands[k], o.result)]}
              ELSE bulkLoop_AbortOnFailure(o.store, commands, k + 1, failing,
                                           pushResult(results, commands[k], o.result))
                : o \in addCommandOn(st, commands[k], k \notin failing)}

\* for (const cmd of commands): addCommand in try/catch, from the k-th element on
RECURSIVE bulkLoop(_, _, _, _, _)
bulkLoop(st, commands, k, failing, results) ==
  IF k > Len(commands) THEN {[store |-> st, results |-> results]}
  ELSE UNION {bulkLoop(o.store, commands, k + 1, failing,
                       pushResult(results, commands[k], o.result))
                : o \in addCommandOn(st, commands[k], k \notin failing)}

\* the elements of a batch: two pairs and an element without command
BulkData ==
  { [command |-> <<"a">>, description |-> NULL, category |-> <<"c">>],
    [command |-> <<"b">>, description |-> <<"x">>, category |-> <<"c">>],
    [command |-> <<>>, description |-> NULL, category |-> <<"c">>] }

Batches == UNION {[1..n -> BulkData] : n \in 1..MaxBatch}

\* the stores a batch arrives at: empty, after one add (the provider having
\* answered or not), after an add and its delete
BulkStores ==
  LET first == [command |-> <<"a">>, description |-> NULL, category |-> <<"c">>]
      empty == [commands |-> <<>>, embeddings |-> <<>>, fts |-> <<>>, seq |-> 0]
      added == CHOOSE o \in addCommandOn(empty, first, TRUE) : TRUE
      failed == CHOOSE o \in addCommandOn(empty, first, FALSE) : TRUE
  IN { empty, added.store, failed.store,
       [failed.store EXCEPT !.commands = <<>>] }

BulkInit ==
  /\ \E st \in BulkStores :
       /\ checkpoint_commands = st.commands
       /\ command_embeddings = st.embeddings
       /\ commands_fts = st.fts
       /\ sqlite_sequence = st.seq
  /\ last = [op |-> "none"]
  /\ pre = store
  /\ ncalls = 0
  /\ requests = <<>>

bulkAddCommands(commands, failing) ==
  /\ last.op = "none"
  /\ \E o \in bulkLoop(store, commands, 1, failing,
                        [added |-> <<>>, skipped |-> <<>>, errors |-> <<>>]) :
       /\ checkpoint_commands' = o.store.commands
       /\ command_embeddings' = o.store.embeddings
       /\ commands_fts' = o.store.fts
       /\ sqlite_sequence' = o.store.seq
       /\ last' = [op |-> "bulkAddCommands", commands |-> commands,
                   failing |-> failing, result |-> Returned(o.results)]
  /\ pre' = store
  /\ UNCHANGED <<ncalls, requests>>

BulkNext ==
  /\ last.op = "none"
  /\ \E commands \in Batches : \E failing \in SUBSET DOMAIN commands :
       bulkAddCommands(commands, failing)

BulkSpec == BulkInit /\ [][BulkNext]_vars

\* ---------------------------------------------------------------------------
\* the search tools of the MCP server: arguments -> request body -> engine

\* value || fallback on a number that may be absent: 0 is falsy
orNumber(args, k, fallback) ==
  IF Has(args, k) /\ args[k] # 0 THEN args[k] ELSE fallback

\* value || fallback on a fraction num / den that may be absent
orFraction(args, k, fallback) ==
  IF Has(args, k) /\ args[k].num # 0 THEN args[k] ELSE fallback

\* { limit = fallback } = body: the default applies to an absent key only
defaultTo(body, k, fallback) == IF Has(body, k) THEN body[k] ELSE fallback

\* what the caller of a tool may supply
ToolArgs ==
  LET limits == {-1, 0, 1, DefaultLimit, AdvancedDefaultLimit, 20}
      thresholds == {[num |-> 0, den |-> 1], DefaultThreshold, [num |-> 1, den |-> 2],
                     [num |-> 9, den |-> 10], [num |-> 1, den |-> 1]}
  IN [query : {aab, abb}]
     \cup [query : {aab, abb}, limit : limits]
     \cup [query : {aab, abb}, score_threshold : thresholds]
     \cup [query : {aab, abb}, limit : limits, score_threshold : thresholds]

ToolInit ==
  /\ checkpoint_commands = <<>>
  /\ command_embeddings = <<>>
  /\ commands_fts = <<>>
  /\ sqlite_sequence = 0
  /\ last = [op |-> "none"]
  /\ pre = store
  /\ ncalls = 0
  /\ requests = <<>>

\* case "search_commands": the body sent to POST /api/commands/search and the
\* arguments its handler calls searchCommands with
search_commands(args) ==
  LET body == [query |-> args.query,
               limit |-> orNumber(args, "limit", 5),
               score_threshold |-> orFraction(args, "score_threshold", DefaultThreshold)]
  IN /\ last.op = "none"
     /\ last' = [op |-> "search_commands", args |-> args, body |-> body,
                 engine |-> [query |-> body.query,
                             limit |-> defaultTo(body, "limit", DefaultLimit),
                             score_threshold |->
                               defaultTo(body, "score_threshold", DefaultThreshold)]]
     /\ UNCHANGED <<checkpoint_commands, command_embeddings, commands_fts,
                    sqlite_sequence, pre, ncalls, requests>>

\* case "advanced_search": the body sent to POST /api/commands/search/advanced
\* and the limit and score_threshold advancedSearch takes from it
advanced_search(args) ==
  LET body == [query |-> args.query,
               limit |-> orNumber(args, "limit", 10),
               score_threshold |-> orFraction(args, "score_threshold", DefaultThreshold)]
  IN /\ last.op = "none"
     /\ last' = [op |-> "advanced_search", args |-> args, body |-> body,
                 engine |-> [query |-> body.query,
                             limit |-> defaultTo(body, "limit", AdvancedDefaultLimit),
                             score_threshold |->
                               defaultTo(body, "score_threshold", DefaultThreshold)]]
     /\ UNCHANGED <<checkpoint_commands, command_embeddings, commands_fts,
                    sqlite_sequence, pre, ncalls, requests>>

ToolNext ==
  \/ \E args \in ToolArgs : search_commands(args)
  \/ \E args \in ToolArgs : advanced_search(args)

ToolSpec == ToolInit /\ [][ToolNext]_vars

\* ---------------------------------------------------------------- HTTP handlers
\* POST /api/commands: 409 for an error result, 500 for an exception
postCommandsStatus(result) ==
  IF result.outcome = "throw" THEN 500
  ELSE IF result.value.error THEN 409 ELSE 200

\* POST /api/commands as a whole: 400 when command or description is missing
\* from the body, else the status for what addCommand did
postCommands(commandData, result) ==
  IF ~Truthy(commandData.command) \/ ~Truthy(commandData.description) THEN 400
  ELSE postCommandsStatus(result)

\* PUT /api/commands/:id and DELETE /api/commands/:id: 404 when the store
\* function returns false, 500 for an exception
byIdStatus(result) ==
  IF result.outcome = "throw" THEN 500
  ELSE IF ~result.value THEN 404 ELSE 200

\* ---------------------------------------------------------------- properties
IsAdd == last.op = "addCommand"
IsUpdate == last.op = "updateCommand"
IsDelete == last.op = "deleteCommand"

PreMatching(d) ==
  {i \in DOMAIN pre.commands :
     /\ pre.commands[i].command = d.command
     /\ pre.commands[i].category = d.category}

ProviderSucceeded == Len(last.provider) = 1 /\ last.provider[1].ok
ProviderFailed == Len(last.provider) = 1 /\ ~last.provider[1].ok

IsDuplicateError(d) ==
  /\ last.result.outcome = "return"
  /\ last.result.value.error
  /\ last.result.value.existing_command_id \in PreMatching(d)
  /\ last.result.value.existing_command_id \in last.result.value.message.ids

\* C1 (as stated): addRecord with a (name, category) pair equal to that of an
\* existing record returns Duplicate with that record's identifier, changes
\* no store and calls no provider.
C1_Original ==
  (IsAdd /\ PreMatching(last.args) # {})
    => (IsDuplicateError(last.args) /\ store = pre /\ last.provider = <<>>)

\* C1 (amended): addRecord with a non-empty name and a non-empty category
\* equal to those of an existing record returns Duplicate with that record's
\* identifier, changes no store and calls no provider.
C1_DuplicateRejected ==
  (IsAdd /\ Truthy(last.args.command) /\ Truthy(last.args.category)
     /\ PreMatching(last.args) # {})
    => (IsDuplicateError(last.args) /\ store = pre /\ last.provider = <<>>)

C1_Witness ==
  /\ IsAdd
  /\ Truthy(last.args.command) /\ Truthy(last.args.category)
  /\ PreMatching(last.args) # {}
  /\ last.result.value.existing_command_id = 1
  /\ pre.embeddings # <<>>

AddedExactlyOne(id) ==
  /\ last.result.outcome = "return"
  /\ ~last.result.value.error
  /\ id > pre.seq
  /\ id \notin DOMAIN pre.commands
  /\ id \in DOMAIN checkpoint_commands
  /\ checkpoint_commands[id].command = last.args.command
  /\ checkpoint_commands[id].description = last.args.description
  /\ checkpoint_commands[id].category = last.args.category
  /\ Without(checkpoint_commands, id) = pre.commands
  /\ id \in DOMAIN command_embeddings
  /\ Without(command_embeddings, id) = pre.embeddings

\* C2 (as stated): a successful addRecord of a new pair returns a fresh id,
\* one record and one embedding exist for it, and the embedding is derived
\* from the text name + " " + description.
C2_Original ==
  (IsAdd /\ PreMatching(last.args) = {} /\ ProviderSucceeded)
    => LET id == last.result.value.id
           row == checkpoint_commands[id]
       IN /\ AddedExactlyOne(id)
          /\ command_embeddings[id] =
               getEmbedding(row.command \o <<" ">> \o OrEmpty(row.description))

\* C2 (amended): a successful addRecord of a new pair returns a fresh id,
\* one record and one embedding exist for it, and the embedding is derived
\* from the text name + " " + description (description taken as empty when
\* absent) with leading and trailing whitespace removed.
C2_AddStoresEmbedding ==
  (IsAdd /\ PreMatching(last.args) = {} /\ ProviderSucceeded)
    => LET id == last.result.value.id
           row == checkpoint_commands[id]
       IN /\ AddedExactlyOne(id)
          /\ command_embeddings[id] =
               getEmbedding(trim(row.command \o <<" ">> \o OrEmpty(row.description)))

C2_Witness ==
  /\ IsAdd /\ PreMatching(last.args) = {} /\ ProviderSucceeded
  /\ last.args.description = <<"x">>
  /\ pre.commands # <<>>
  /\ last.result.value.id \in DOMAIN command_embeddings

\* C3: when the provider fails during addRecord the inserted record and its
\* index entry stay, the record has no embedding, and every other record and
\* embedding is unchanged.
C3_FailedAddKeepsRecord ==
  (IsAdd /\ ProviderFailed)
    => \E id \in DOMAIN checkpoint_commands \ DOMAIN pre.commands :
          /\ id > pre.seq
          /\ checkpoint_commands[id].command = last.args.command
          /\ checkpoint_commands[id].category = last.args.category
          /\ id \in DOMAIN commands_fts
          /\ RowTokens(checkpoint_commands[id]) \subseteq commands_fts[id]
          /\ id \in ftsMatch(commands_fts, last.args.command)
          /\ id \notin DOMAIN command_embeddings
          /\ Without(checkpoint_commands, id) = pre.commands
          /\ command_embeddings = pre.embeddings

C3_Witness ==
  /\ IsAdd /\ ProviderFailed
  /\ pre.embeddings # <<>>
  /\ DOMAIN checkpoint_commands # DOMAIN pre.commands

\* C4: when the provider fails during addRecord, the error returned to the
\* caller names the identifier of the record that was just inserted.
C4_ErrorNamesNewId ==
  (IsAdd /\ ProviderFailed)
    => \E id \in DOMAIN checkpoint_commands \ DOMAIN pre.commands :
         id \in last.result.value.ids

ChangesText(u, row) ==
  \/ Has(u, "command") /\ u.command # row.command
  \/ Has(u, "description") /\ u.description # row.description

\* C5: after a successful updateRecord on an existing record that changes
\* the name or the description, the stored embedding is the one derived from
\* the post-update name and description.
C5_UpdateRegenerates ==
  (/\ IsUpdate
   /\ last.id \in DOMAIN pre.commands
   /\ last.result = Returned(TRUE)
   /\ ChangesText(last.args, pre.commands[last.id]))
    => /\ last.id \in DOMAIN command_embeddings
       /\ command_embeddings[last.id] =
            getEmbedding(textToEmbed(checkpoint_commands[last.id].command,
                                     checkpoint_commands[last.id].description))

\* C6: an updateRecord whose field set contains neither name nor description
\* leaves the embedding store unchanged and calls no provider.
C6_OtherFieldsKeepEmbeddings ==
  (IsUpdate /\ ~Has(last.args, "command") /\ ~Has(last.args, "description"))
    => (command_embeddings = pre.embeddings /\ last.provider = <<>>)

C6_Witness ==
  /\ IsUpdate
  /\ last.args = [keywords |-> <<"k">>, deprecated |-> 1]
  /\ last.id \in DOMAIN command_embeddings
  /\ last.result = Returned(TRUE)
  /\ checkpoint_commands[last.id].deprecated = 1
  /\ pre.commands[last.id].deprecated = 0

\* C7: updateRecord with an identifier that matches no record returns
\* NotFound for every non-empty field set and changes no store.
C7_UpdateUnknownIsNotFound ==
  (IsUpdate /\ last.id \notin DOMAIN pre.commands)
    => (byIdStatus(last.result) = 404 /\ store = pre)

NoIndexEntry(id) ==
  \A r \in DOMAIN commands_fts : \A t \in commands_fts[r] :
    id \notin ftsMatch(commands_fts, t)

\* C8: after a successful deleteRecord(id) the record is gone, no embedding
\* and no index entry exists for id, validateIntegrity reports no orphan for
\* id, and all other records and embeddings are unchanged.
C8_DeleteCascades ==
  (IsDelete /\ last.id \in DOMAIN pre.commands)
    => /\ last.result = Returned(TRUE)
       /\ last.id \notin DOMAIN checkpoint_commands
       /\ last.id \notin DOMAIN command_embeddings
       /\ NoIndexEntry(last.id)
       /\ last.id \notin orphanedEmbeddings
       /\ checkpoint_commands = Without(pre.commands, last.id)
       /\ command_embeddings = Without(pre.embeddings, last.id)

\* C9: deleteRecord with an identifier that matches no record returns
\* NotFound and changes no store.
C9_DeleteUnknownIsNotFound ==
  (IsDelete /\ last.id \notin DOMAIN pre.commands)
    => (byIdStatus(last.result) = 404 /\ store = pre)

C9_Witness ==
  /\ IsDelete
  /\ last.id \notin DOMAIN pre.commands
  /\ pre.commands # <<>>
  /\ pre.embeddings # <<>>
  /\ last.result = Returned(FALSE)

\* C10: in every state reached by completed calls, with the provider
\* succeeding or failing arbitrarily, every stored embedding is keyed by the
\* identifier of an existing record (command_id is the primary key of
\* command_embeddings, so a record never has two).
C10_NoOrphanEmbedding == orphanedEmbeddings = {}

C10_Witness ==
  /\ IsDelete
  /\ last.id \in DOMAIN pre.embeddings
  /\ last.id \notin DOMAIN command_embeddings
  /\ command_embeddings # <<>>
  /\ DOMAIN command_embeddings \subseteq DOMAIN checkpoint_commands

IsRebuildAll == last.op = "rebuildAllEmbeddings"
IsRebuildById == last.op = "rebuildEmbeddingById"

\* C11: the text index holds exactly one entry per existing record, and the
\* entry's (name, description, keywords, category) are the record's current
\* values.
C11_IndexMirrorsRecords ==
  /\ DOMAIN commands_fts = DOMAIN checkpoint_commands
  /\ \A i \in DOMAIN checkpoint_commands :
       commands_fts[i] = RowTokens(checkpoint_commands[i])

\* C12: rebuildAllEmbeddings visits every record that exists when it starts,
\* also after a provider failure; success + failed is the number of records
\* visited and failed is the number of records whose provider call failed.
C12_RebuildAllVisitsAll ==
  IsRebuildAll
    => /\ Len(last.provider) = Cardinality(DOMAIN pre.commands)
       /\ last.result.value.success + last.result.value.failed
            = Cardinality(DOMAIN pre.commands)
       /\ last.result.value.failed = Cardinality(last.failing)
       /\ \A i \in DOMAIN pre.commands \ last.failing :
            /\ i \in DOMAIN command_embeddings
            /\ command_embeddings[i] =
                 getEmbedding(textToEmbed(pre.commands[i].command,
                                          pre.commands[i].description))

C12_Witness ==
  /\ IsRebuildAll
  /\ last.failing = {1}
  /\ DOMAIN pre.commands = {1, 2}
  /\ 2 \notin DOMAIN pre.embeddings
  /\ 2 \in DOMAIN command_embeddings
  /\ last.result.value.success = 1
  /\ last.result.value.failed = 1

\* C13: a record whose provider call fails during rebuildAllEmbeddings has
\* after the batch exactly the embedding it had before (none if it had none).
C13_FailedRebuildKeepsEmbedding ==
  IsRebuildAll
    => \A i \in last.failing :
         IF i \in DOMAIN pre.embeddings
         THEN i \in DOMAIN command_embeddings
              /\ command_embeddings[i] = pre.embeddings[i]
         ELSE i \notin DOMAIN command_embeddings

C13_Witness ==
  /\ IsRebuildAll
  /\ \E i \in last.failing :
       /\ i \in DOMAIN pre.embeddings
       /\ command_embeddings[i] = pre.embeddings[i]
       /\ pre.embeddings[i] #
            getEmbedding(textToEmbed(checkpoint_commands[i].command,
                                     checkpoint_commands[i].description))

\* C14: the result of rebuildAllEmbeddings has a failures list with one
\* {id, reason} entry per record whose rebuild failed and none for the others.
C14_ResultListsFailures ==
  IsRebuildAll
    => /\ "failures" \in DOMAIN last.result.value
       /\ {last.result.value.failures[k].id :
             k \in DOMAIN last.result.value.failures} = last.failing

IsSearch == last.op = "searchCommands"
SearchReturned == IsSearch /\ last.result.outcome = "return"
ResultIds == {last.result.value[k].id : k \in DOMAIN last.result.value}

ScoreOf(i) ==
  cosineSimilarity(providerVector(getEmbedding(last.query)),
                   providerVector(command_embeddings[i]))

\* the candidates of the last search that have an embedding and a score
\* at or above the threshold
Passing ==
  {i \in last.candidateIds \cap DOMAIN command_embeddings :
     AtLeast(ScoreOf(i), last.scoreThreshold)}

\* the returned items are distinct candidates carrying their own score, at or
\* above the threshold, in non-increasing order, and no candidate left out
\* scores strictly higher than a returned one
TopOfRanking ==
  LET res == last.result.value
  IN /\ ResultIds \subseteq Passing
     /\ Cardinality(ResultIds) = Len(res)
     /\ \A k \in DOMAIN res : res[k].score = ScoreOf(res[k].id)
     /\ \A k \in DOMAIN res : AtLeast(res[k].score, last.scoreThreshold)
     /\ \A k \in 1..(Len(res) - 1) : ~ScoreLess(res[k].score, res[k + 1].score)
     /\ \A i \in Passing \ ResultIds :
          \A k \in DOMAIN res : ~ScoreGreater(ScoreOf(i), res[k].score)

\* C16: for every search(query, limit, threshold) each returned item has
\* score >= threshold, at most limit items are returned, scores are
\* non-increasing, and no left-out candidate with score >= threshold scores
\* strictly higher than a returned item.
C16_TopOfRankingWithinLimit ==
  SearchReturned => TopOfRanking /\ Len(last.result.value) <= last.limit

\* C17: candidates of equal score are returned in ascending identifier order,
\* and a tied candidate cut off by the limit has a larger identifier than the
\* tied ones returned, whatever order the store returns the rows in.
C17_TiesByAscendingId ==
  SearchReturned
    => LET res == last.result.value
       IN /\ \A k \in 1..(Len(res) - 1) :
               ScoreEqual(res[k].score, res[k + 1].score) => res[k].id < res[k + 1].id
          /\ \A i \in Passing \ ResultIds :
               \A k \in DOMAIN res :
                 ScoreEqual(ScoreOf(i), res[k].score) => res[k].id < i

\* the text-index query of the last search ran and matched nothing
ZeroMatches ==
  /\ last.keywords # <<>>
  /\ ~last.ftsFailed
  /\ \A k \in DOMAIN last.keywords : \A r \in DOMAIN commands_fts :
       last.keywords[k] \notin commands_fts[r]

MismatchedCandidates ==
  {i \in last.candidateIds \cap DOMAIN command_embeddings :
     Len(providerVector(command_embeddings[i]))
       # Len(providerVector(getEmbedding(last.query)))}

NothingToRank == last.candidateIds \cap DOMAIN command_embeddings = {}

\* C20 as stated: a search with no candidate, or with no candidate that has
\* an embedding, returns the empty result and never an error.
C20_Original ==
  IsSearch /\ NothingToRank => last.result = Returned(<<>>)

\* C20: a search with no candidate, or with no candidate that has an
\* embedding, returns the empty result if the provider answers for the query
\* text and raises the provider's error otherwise; a returned result never
\* holds a candidate without an embedding.
C20_EmptyWhenProviderAnswers ==
  /\ IsSearch /\ NothingToRank
       => /\ last.provider = <<Asked(last.query, ProviderSucceeded)>>
          /\ last.result = IF ProviderSucceeded THEN Returned(<<>>)
                           ELSE Thrown("Ollama API error", {})
  /\ SearchReturned => ResultIds \subseteq DOMAIN command_embeddings

C20_Witness ==
  /\ IsSearch
  /\ last.candidateIds = {}
  /\ ProviderFailed
  /\ last.result = Thrown("Ollama API error", {})

IsAdvancedSearch == last.op = "advancedSearch"

\* C21: a search, plain or advanced, successful or failed, leaves the record
\* set, the embedding store and the text index as they were before the call.
C21_SearchMutatesNothing ==
  IsSearch \/ IsAdvancedSearch
    => /\ checkpoint_commands = pre.commands
       /\ command_embeddings = pre.embeddings
       /\ commands_fts = pre.fts
       /\ sqlite_sequence = pre.seq

C21_Witness ==
  /\ IsSearch
  /\ last.result.outcome = "throw"
  /\ DOMAIN commands_fts # DOMAIN checkpoint_commands
  /\ command_embeddings # <<>>
  /\ commands_fts = pre.fts

\* C26: addRecord with an empty or missing name or category inserts nothing
\* and is rejected with a validation outcome that carries no existing
\* identifier and is not reported with the duplicate status.
C26_ValidationDistinctFromDuplicate ==
  IsAdd /\ (~Truthy(last.args.command) \/ ~Truthy(last.args.category))
    => /\ store = pre
       /\ last.result.outcome = "return"
       /\ last.result.value.error
       /\ last.result.value.existing_command_id = NoId
       /\ postCommands(last.args, last.result) # 409

\* C25: no operation changes the identifier of an existing record, not even
\* updateRecord with an id key, and every identifier that appears is one that
\* was never assigned before.
C25_IdentifiersImmutable ==
  /\ IsUpdate => DOMAIN checkpoint_commands = DOMAIN pre.commands
  /\ \A i \in DOMAIN checkpoint_commands \ DOMAIN pre.commands : i > pre.seq

IsFindDuplicates == last.op = "findDuplicates"
IsValidate == last.op = "validateDatabase"

\* the records that share command and category with record i
SameGroup(i) ==
  {j \in DOMAIN checkpoint_commands :
     /\ checkpoint_commands[j].command = checkpoint_commands[i].command
     /\ checkpoint_commands[j].category = checkpoint_commands[i].category}

\* C27: findDuplicates reports exactly the (name, category) groups with more
\* than one record, each once, with count equal to its size and ids equal to
\* its members; no group of size one is reported.
C27_FindDuplicatesExact ==
  IsFindDuplicates
    => LET res == last.result.value
       IN /\ store = pre
          /\ \A i \in DOMAIN checkpoint_commands :
               Cardinality(SameGroup(i)) > 1
                 => Cardinality({k \in DOMAIN res :
                                   /\ res[k].command = checkpoint_commands[i].command
                                   /\ res[k].category = checkpoint_commands[i].category
                                   /\ res[k].count = Cardinality(SameGroup(i))
                                   /\ res[k].ids = SameGroup(i)}) = 1
          /\ \A k \in DOMAIN res :
               /\ res[k].count > 1
               /\ \E i \in DOMAIN checkpoint_commands : res[k].ids = SameGroup(i)
          /\ \A k, l \in DOMAIN res :
               res[k].command = res[l].command /\ res[k].category = res[l].category
                 => k = l

C27_Witness ==
  /\ IsFindDuplicates
  /\ Len(last.result.value) = 1
  /\ last.result.value[1].count = 2
  /\ last.result.value[1].ids = {1, 2}

\* the identifiers validateDatabase reports under one issue type
Reported(type) ==
  UNION {last.result.value.issues[k].ids :
           k \in {n \in DOMAIN last.result.value.issues :
                    last.result.value.issues[n].type = type}}

\* C28: validateIntegrity reports exactly the records without embedding, the
\* embeddings without record and the records with an empty or null name or
\* category; it reports valid iff all three are empty, and changes nothing.
C28_ValidateReportsExactly ==
  IsValidate
    => LET missing == {i \in DOMAIN checkpoint_commands : i \notin DOMAIN command_embeddings}
           orphans == {i \in DOMAIN command_embeddings : i \notin DOMAIN checkpoint_commands}
           invalid == {i \in DOMAIN checkpoint_commands :
                         \/ checkpoint_commands[i].command = <<>>
                         \/ checkpoint_commands[i].command = NULL
                         \/ checkpoint_commands[i].category = <<>>
                         \/ checkpoint_commands[i].category = NULL}
       IN /\ Reported("missing_embeddings") = missing
          /\ Reported("orphaned_embeddings") = orphans
          /\ Reported("missing_required_fields") = invalid
          /\ last.result.value.valid
               <=> (missing = {} /\ orphans = {} /\ invalid = {})
          /\ \A k \in DOMAIN last.result.value.issues :
               last.result.value.issues[k].type \in
                 {"missing_embeddings", "orphaned_embeddings", "missing_required_fields"}
          /\ store = pre

C28_Witness ==
  /\ IsValidate
  /\ ~last.result.value.valid
  /\ Reported("missing_embeddings") # {}
  /\ Reported("missing_required_fields") # {}
  /\ Reported("missing_required_fields") # DOMAIN checkpoint_commands

IsKeywords == last.op = "extractKeywords"

\* the text lowercased, punctuation replaced by spaces
Normalized == normalize(last.text)

\* the maximal runs of non-space characters of the normalized text, as pairs
\* of first and last position
Runs ==
  {p \in (1..Len(Normalized)) \X (1..Len(Normalized)) :
     /\ p[1] <= p[2]
     /\ \A i \in p[1]..p[2] : Normalized[i] # " "
     /\ p[1] = 1 \/ Normalized[p[1] - 1] = " "
     /\ p[2] = Len(Normalized) \/ Normalized[p[2] + 1] = " "}

\* the runs that are long enough and no stopword
KeptRuns ==
  {p \in Runs :
     /\ p[2] - p[1] + 1 >= last.minLength
     /\ SubSeq(Normalized, p[1], p[2]) \notin STOPWORDS}

FirstAt(word) ==
  CHOOSE i \in 1..Len(Normalized) :
    /\ \E p \in KeptRuns : p[1] = i /\ SubSeq(Normalized, p[1], p[2]) = word
    /\ \A p \in KeptRuns :
         SubSeq(Normalized, p[1], p[2]) = word => i <= p[1]

IsRoundTrip == last.op = "embeddingToBlob"

\* C30: decoding the stored binary form of a vector of finite components,
\* the empty vector included, gives a vector of the same length with every
\* component equal to the original.
C30_EncodingRoundTrips ==
  IsRoundTrip
    => /\ Len(last.blob) = 8 * Len(last.embedding)
       /\ Len(last.result.value) = Len(last.embedding)
       /\ \A i \in DOMAIN last.embedding :
            last.result.value[i] = last.embedding[i]

C30_Witness ==
  /\ IsRoundTrip
  /\ last.embedding = << <<16313, 39321, 39321, 39322>>, <<32768, 0, 0, 0>> >>
  /\ last.blob = <<154, 153, 153, 153, 153, 153, 185, 63, 0, 0, 0, 0, 0, 0, 0, 128>>
  /\ last.result.value = last.embedding

\* C22: between the first store write of an addRecord or updateRecord request
\* and its completion, no other request's store write takes effect.
C22_OneRequestAtATime ==
  [][\A r \in DOMAIN requests :
       /\ requests[r].pc = "awaiting"
       /\ requests[r].op \in {"addCommand", "updateCommand"}
       /\ <<checkpoint_commands, command_embeddings, commands_fts, sqlite_sequence>>'
            # <<checkpoint_commands, command_embeddings, commands_fts, sqlite_sequence>>
       => last'.req = r]_vars

\* C23: a search that runs while an addRecord or updateRecord is in flight
\* never returns that record with its new name/description together with an
\* embedding that is not the one derived from that text.
C23_NoTornRecord ==
  last.op = "searchCommands" /\ last.step = "finish" /\ last.result.outcome = "return"
    => \A k \in DOMAIN last.result.value : \A r \in DOMAIN requests :
         LET item == last.result.value[k]
         IN /\ requests[r].pc = "awaiting"
            /\ requests[r].op \in {"addCommand", "updateCommand"}
            /\ requests[r].id = item.id
            /\ textToEmbed(item.command, item.description) = requests[r].text
            => item.embedding = getEmbedding(requests[r].text)

\* C31: when the provider answers for the query and a candidate's stored
\* vector has another length than the query vector, the search, plain or
\* advanced, fails with the length error of cosineSimilarity: no result is
\* returned, neither without the candidate nor with the others only.
C31_MismatchSurfaced ==
  (IsSearch \/ IsAdvancedSearch) /\ ProviderSucceeded /\ MismatchedCandidates # {}
    => last.result = Thrown("Vectors must have same length", {})

C31_Witness ==
  /\ IsSearch
  /\ ProviderSucceeded
  /\ MismatchedCandidates # {}
  /\ \E i \in (last.candidateIds \cap DOMAIN command_embeddings) \ MismatchedCandidates :
       AtLeast(ScoreOf(i), last.scoreThreshold)
  /\ last.result = Thrown("Vectors must have same length", {})

\* the records that match every supplied filter of the last advanced search
\* and score at or above its threshold
MatchingRecords ==
  {i \in DOMAIN command_embeddings \cap DOMAIN checkpoint_commands :
     /\ passesFilters([id |-> i, category |-> checkpoint_commands[i].category],
                      last.filters)
     /\ AtLeast(ScoreOf(i), last.scoreThreshold)}

\* every returned item is a record that matches every supplied filter and
\* scores at or above the threshold, carrying its own score
AdvancedItemsMatch ==
  \A k \in DOMAIN last.result.value :
     /\ last.result.value[k].id \in MatchingRecords
     /\ last.result.value[k].score = ScoreOf(last.result.value[k].id)

\* C32: every item advancedSearch returns matches all supplied filters and
\* has score >= threshold, and at most limit items are returned (the filters
\* are applied to the 2 x limit best results only).
C32_FilteredWithinLimit ==
  IsAdvancedSearch /\ last.result.outcome = "return"
    => AdvancedItemsMatch /\ Len(last.result.value) <= last.limit

\* the filters are applied after the cut to 2 x limit: fewer than limit items
\* returned although limit candidates match the filters at or above the
\* threshold
C32_FewerThanLimit ==
  /\ IsAdvancedSearch /\ last.result.outcome = "return"
  /\ last.limit > 0
  /\ Len(last.result.value) < last.limit
  /\ Cardinality(MatchingRecords \cap last.candidateIds) >= last.limit

\* a negative limit: an item is returned
C32_MoreThanLimit ==
  /\ IsAdvancedSearch /\ last.result.outcome = "return"
  /\ last.limit < 0
  /\ Len(last.result.value) > 0

IsBulkAdd == last.op = "bulkAddCommands"

\* the element at index k has no command or no category
Rejected(k) ==
  ~Truthy(last.commands[k].command) \/ ~Truthy(last.commands[k].category)

\* the (name, category) of the element at index k was held by a record before
\* the call, or by an earlier element of the batch that was inserted
AlreadyThere(k) ==
  \/ \E i \in DOMAIN pre.commands :
       /\ pre.commands[i].command = last.commands[k].command
       /\ pre.commands[i].category = last.commands[k].category
  \/ \E j \in 1..(k - 1) :
       /\ ~Rejected(j)
       /\ last.commands[j].command = last.commands[k].command
       /\ last.commands[j].category = last.commands[k].category

PlaceOf(k) ==
  IF Rejected(k) \/ AlreadyThere(k) THEN "skipped"
  ELSE IF k \in last.failing THEN "errors" ELSE "added"

\* the indices of the elements that belong to a list, in input order
IndicesOf(place) ==
  SelectSeq([k \in 1..Len(last.commands) |-> k], LAMBDA k : PlaceOf(k) = place)

\* C33: bulkAddCommands places every element, in input order, in exactly one
\* of added, skipped and errors: an element whose (name, category) exists,
\* before the call or from an earlier element of the batch, is skipped with
\* the identifier of the record holding the pair; an element the provider
\* fails for goes to errors and the following elements are still processed;
\* every other element with name and category is added under a new identifier
\* with its embedding.
C33_BulkPlacesEveryElement ==
  IsBulkAdd
    => LET res == last.result.value
           added == IndicesOf("added")
           skipped == IndicesOf("skipped")
           errors == IndicesOf("errors")
       IN /\ last.result.outcome = "return"
          /\ Len(res.added) + Len(res.skipped) + Len(res.errors) = Len(last.commands)
          /\ Len(res.added) = Len(added)
          /\ Len(res.skipped) = Len(skipped)
          /\ Len(res.errors) = Len(errors)
          /\ \A n \in DOMAIN added :
               LET d == last.commands[added[n]]
                   id == res.added[n].id
               IN /\ res.added[n].command = d.command
                  /\ res.added[n].category = d.category
                  /\ id \in DOMAIN checkpoint_commands \ DOMAIN pre.commands
                  /\ checkpoint_commands[id] = NewRow(d)
                  /\ id \in DOMAIN command_embeddings
                  /\ command_embeddings[id] =
                       getEmbedding(textToEmbed(d.command, d.description))
          /\ \A n \in DOMAIN skipped :
               LET d == last.commands[skipped[n]]
                   e == res.skipped[n].existing_id
               IN /\ res.skipped[n].command = d.command
                  /\ res.skipped[n].category = d.category
                  /\ IF Rejected(skipped[n]) THEN e = NoId
                     ELSE /\ e \in DOMAIN checkpoint_commands
                          /\ checkpoint_commands[e].command = d.command
                          /\ checkpoint_commands[e].category = d.category
          /\ \A n \in DOMAIN errors :
               /\ res.errors[n].command = last.commands[errors[n]].command
               /\ res.errors[n].error = Thrown("Ollama API error", {}).value

C33_Witness ==
  /\ IsBulkAdd
  /\ Len(last.commands) = 3
  /\ last.failing = {1}
  /\ Len(last.result.value.errors) = 1
  /\ Len(last.result.value.skipped) = 1
  /\ Len(last.result.value.added) = 1
  /\ last.commands[2] = last.commands[1]
  /\ last.result.value.skipped[1].existing_id \in DOMAIN checkpoint_commands \ DOMAIN pre.commands
  /\ last.result.value.skipped[1].existing_id \notin DOMAIN command_embeddings

\* C34: in every state reached by completed addCommand, updateCommand,
\* renameCategory and deleteCommand calls no two records share the same
\* (command, category) pair.
C34_NoDuplicatePairs ==
  \A i, j \in DOMAIN checkpoint_commands :
     /\ checkpoint_commands[i].command = checkpoint_commands[j].command
     /\ checkpoint_commands[i].category = checkpoint_commands[j].category
     => i = j

\* r1 and r2 are addCommand requests for the same (command, category), r1
\* arrived first and inserted a record, and no request arriving between the
\* two has deleted or updated a record
AddedBefore(r1, r2) ==
  /\ r1 < r2
  /\ requests[r1].op = "addCommand" /\ requests[r2].op = "addCommand"
  /\ requests[r1].args.command = requests[r2].args.command
  /\ requests[r1].args.category = requests[r2].args.category
  /\ requests[r1].id # NoId
  /\ \A q \in (r1 + 1)..(r2 - 1) :
       requests[q].op \notin {"deleteCommand", "updateCommand"}

\* C35: of two addCommand requests for the same (command, category) at most
\* one inserts a record; the other returns the duplicate error carrying the
\* identifier the first one inserted, whether or not the first has completed.
C35_ConcurrentAddsOneInsert ==
  \A r1, r2 \in DOMAIN requests :
     AddedBefore(r1, r2)
       => /\ requests[r2].id = NoId
          /\ requests[r2].pc = "done"
          /\ requests[r2].result =
               Returned([error |-> TRUE, existing_command_id |-> requests[r1].id])

C35_Witness ==
  /\ Len(requests) >= 2
  /\ AddedBefore(1, 2)
  /\ requests[1].pc = "awaiting"
  /\ requests[2].result =
       Returned([error |-> TRUE, existing_command_id |-> requests[1].id])
  /\ Cardinality(Matching(requests[1].args.command, requests[1].args.category)) = 1

\* the requests that write an embedding for the record of their id after
\* waiting for the provider
LateWriters == {"addCommand", "rebuildEmbeddingById", "rebuildAllEmbeddings"}

\* C36: no embedding is held for an identifier that has no record, in
\* particular once an addCommand, rebuildEmbeddingById or rebuildAllEmbeddings
\* request has gone on after the record in its hands was deleted.
C36_NoEmbeddingForDeleted ==
  /\ DOMAIN command_embeddings \subseteq DOMAIN checkpoint_commands
  /\ \A r \in DOMAIN requests :
       /\ requests[r].op \in LateWriters
       /\ requests[r].pc = "done"
       /\ requests[r].id \notin DOMAIN checkpoint_commands
       => requests[r].id \notin DOMAIN command_embeddings

C36_Witness ==
  /\ Len(requests) = 2
  /\ requests[1].op \in LateWriters
  /\ requests[1].pc = "done"
  /\ requests[1].result = Thrown("constraint failed", {requests[1].id})
  /\ requests[2].op = "deleteCommand"
  /\ requests[2].id = requests[1].id
  /\ requests[1].id \notin DOMAIN command_embeddings

\* C37: when one updateCommand and one rebuildAllEmbeddings request have both
\* completed with the provider answering every call, the embedding of every
\* record is the one derived from its current command and description.
C37_RebuildAllKeepsUpdate ==
  /\ Len(requests) = 2
  /\ \E u, b \in DOMAIN requests :
       /\ requests[u].op = "updateCommand"
       /\ requests[u].pc = "done"
       /\ requests[u].result = Returned(TRUE)
       /\ requests[b].op = "rebuildAllEmbeddings"
       /\ requests[b].pc = "done"
       /\ requests[b].result.value.failed = 0
  => \A i \in DOMAIN command_embeddings :
       command_embeddings[i] =
         getEmbedding(textToEmbed(checkpoint_commands[i].command,
                                  checkpoint_commands[i].description))

\* C38: with a provider that never fails, after any sequence of completed
\* addCommand, updateCommand, renameCategory, deleteCommand,
\* rebuildEmbeddingById and rebuildAllEmbeddings calls every record has its
\* embedding, and validateDatabase reports no missing embedding.
C38_EveryRecordEmbedded ==
  /\ DOMAIN checkpoint_commands \subseteq DOMAIN command_embeddings
  /\ IsValidate => Reported("missing_embeddings") = {}

C38_Witness ==
  /\ IsValidate
  /\ ncalls = MaxCalls
  /\ Cardinality(DOMAIN checkpoint_commands) = 2
  /\ \E i \in DOMAIN checkpoint_commands :
       command_embeddings[i] # getEmbedding(textToEmbed(<<"a">>, NULL))
  /\ last.result.value.valid

\* C39: no record returned by a search, plain or advanced, has its deprecated
\* flag set, whether the candidates come from the text index or from the
\* fallback.
C39_NoDeprecatedResult ==
  (IsSearch \/ IsAdvancedSearch) /\ last.result.outcome = "return"
    => \A k \in DOMAIN last.result.value :
         checkpoint_commands[last.result.value[k].id].deprecated = 0

IsTool == last.op \in {"search_commands", "advanced_search"}

\* C40: the search tools hand the caller's limit and score_threshold to the
\* engine unchanged when they are supplied, a score_threshold of 0 included,
\* and the defaults (limit 5 for search_commands, 10 for advanced_search,
\* score_threshold 0.3) when they are omitted.
C40_ArgumentsForwarded ==
  IsTool
    => /\ last.engine.limit =
            IF Has(last.args, "limit") THEN last.args.limit
            ELSE IF last.op = "search_commands" THEN DefaultLimit
            ELSE AdvancedDefaultLimit
       /\ last.engine.score_threshold =
            IF Has(last.args, "score_threshold") THEN last.args.score_threshold
            ELSE DefaultThreshold
====
